---------------------------- MODULE Spec2Model ----------------------------
(***************************************************************************)
(* A model of the data import/export core of the daylo activity tracker:   *)
(* the sanitizer, the schema validator, the import pipeline, the export    *)
(* encoders and the merge engine (lib/dataExport.ts).                      *)
(*                                                                         *)
(* Strings are sequences of one-character strings.  A JavaScript value is  *)
(* a record [t |-> tag, v |-> characters]: tag "str" carries the string,   *)
(* the other tags ("undef", "null", "num", "true", "false", "arr", "obj")  *)
(* carry <<>>.                                                             *)
(***************************************************************************)
EXTENDS Integers, Sequences, FiniteSets, TLC

VARIABLES
  sanPc, sanIn, sanOut, sanOut2,    \* sanitizer harness
  mrgPc, mrgCall, mrgArgs, mrgRet,  \* merge harness
  mrgRet2,
  valPc, valData, valRes,           \* validator harness
  pipPc, pipStore, pipExported,     \* import/export pipeline
  pipContent, pipRes, pipOut, pipLegacy,
  fldPc, fldObj, fldErrs,           \* field-rule harness
  fnPc, fnNow, fnOffset, fnFormat,  \* file-name harness
  fnOut,
  dsUseIdle, dsPending, dsScheduled, \* deferred storage
  dsLocal, dsCallbacks, dsNext, dsCalls, dsWrites, dsGot,
  tstToasts, tstTimers, tstNow,      \* toast store
  tstNext, tstAdded, tstRemoved, tstLast, tstPrev,
  stoActivities, stoLogs, stoNav,    \* calendar store
  stoNext, stoOps, stoImported, stoOrphan,
  stoLast, stoPrev, stoLast2, stoPrev2,
  modImportMode, modParsedData,      \* import modal
  modIsDragging,
  modError, modValidationErrors, modShowConfirm, modIsImporting,
  modReads, modCount, modSelected, modFrom, modPrev

sanVars == <<sanPc, sanIn, sanOut, sanOut2>>
mrgVars == <<mrgPc, mrgCall, mrgArgs, mrgRet, mrgRet2>>

valVars == <<valPc, valData, valRes>>

pipVars == <<pipPc, pipStore, pipExported, pipContent, pipRes, pipOut, pipLegacy>>

fldVars == <<fldPc, fldObj, fldErrs>>

fnVars == <<fnPc, fnNow, fnOffset, fnFormat, fnOut>>

dsVars ==
  <<dsUseIdle, dsPending, dsScheduled, dsLocal, dsCallbacks, dsNext, dsCalls,
    dsWrites, dsGot>>

tstVars ==
  <<tstToasts, tstTimers, tstNow, tstNext, tstAdded, tstRemoved, tstLast, tstPrev>>

stoVars ==
  <<stoActivities, stoLogs, stoNav, stoNext, stoOps, stoImported, stoOrphan,
    stoLast, stoPrev, stoLast2, stoPrev2>>

modVars ==
  <<modImportMode, modIsDragging, modParsedData, modError, modValidationErrors, modShowConfirm,
    modIsImporting, modReads, modCount, modSelected, modFrom, modPrev>>

\* The variables of the import/export library's harnesses, and those of
\* the application state around it.
libVars == <<sanVars, mrgVars, valVars, pipVars, fldVars, fnVars>>

appVars == <<dsVars, tstVars, stoVars, modVars>>

vars == <<libVars, appVars>>

(***************************************************************************)
(* Bounds of the model.                                                    *)
(***************************************************************************)
\* Number of pieces a sanitizer input is concatenated from.
MaxChunks == 3
\* Longest array handed to mergeData for the entity type under study, and
\* for the other entity type.
MaxMerge == 2
MaxMergeOther == 1
\* Most elements of the four arrays of a merge taken together.
MaxMergeTotal == 6
\* Longest activities array and longest logs array of an enumerated
\* document (the arrays at the volume caps come on top).
MaxActs == 2
MaxLogs == 1
\* Most activities and logs of an enumerated document taken together.
MaxRecords == 3
\* Longest id enumerated character by character (ids at the length limit
\* come on top).
MaxIdLen == 3
MaxCalls == 4
MaxToasts == 2
MaxOps == 4
MaxSelects == 2
MaxTime == 4

(***************************************************************************)
(* Strings.                                                                *)
(***************************************************************************)
Whitespace == {" ", "\n"}

RECURSIVE Concat(_)
Concat(ss) == IF ss = <<>> THEN <<>> ELSE Head(ss) \o Concat(Tail(ss))

\* Whether the literal pat occurs in s at index i.
MatchesAt(s, pat, i) ==
  /\ i + Len(pat) - 1 <= Len(s)
  /\ \A k \in 1..Len(pat) : s[i + k - 1] = pat[k]

\* String.prototype.includes for a literal.
Includes(s, pat) == \E i \in 1..Len(s) : MatchesAt(s, pat, i)

\* String.prototype.replace(/pat/g, rep) for a literal pattern, over the
\* positions lo..hi of s: a match is replaced where it starts and dropped
\* where it continues; the replacement is not rescanned.  (No pattern of
\* this module overlaps itself, so every occurrence is a match.)  Halving
\* keeps the evaluation shallow on long strings.
RECURSIVE ReplaceBetween(_, _, _, _, _)
ReplaceBetween(s, pat, rep, lo, hi) ==
  IF lo > hi THEN <<>>
  ELSE IF lo = hi
  THEN (IF MatchesAt(s, pat, lo) THEN rep
        ELSE IF \E k \in 1..(Len(pat) - 1) : lo - k >= 1 /\ MatchesAt(s, pat, lo - k)
        THEN <<>>
        ELSE <<s[lo]>>)
  ELSE LET mid == (lo + hi) \div 2
       IN ReplaceBetween(s, pat, rep, lo, mid) \o ReplaceBetween(s, pat, rep, mid + 1, hi)

ReplaceAll(s, pat, rep) == ReplaceBetween(s, pat, rep, 1, Len(s))

\* The end of the match of /<[^>]*>/ starting at i (0 when there is none):
\* the first ">" after the "<" at i.
TagEnd(s, i) ==
  IF i <= Len(s) /\ s[i] = "<" /\ \E j \in (i + 1)..Len(s) : s[j] = ">"
  THEN CHOOSE j \in (i + 1)..Len(s) :
         s[j] = ">" /\ \A k \in (i + 1)..(j - 1) : s[k] # ">"
  ELSE 0

\* Whether position j of s lies in a match of /<[^>]*>/g, given the
\* positions lts of "<" and gts of ">": a ">" stands at or after j, and a
\* "<" at or before j with no ">" in between.
InTag(lts, gts, j) ==
  /\ \E k \in gts : k >= j
  /\ \E i \in lts : i <= j /\ \A k \in gts : ~(i <= k /\ k < j)

\* String.prototype.replace(/<[^>]*>/g, '') over the positions lo..hi.
RECURSIVE StripTagsBetween(_, _, _, _, _)
StripTagsBetween(s, lts, gts, lo, hi) ==
  IF lo > hi THEN <<>>
  ELSE IF lo = hi THEN (IF InTag(lts, gts, lo) THEN <<>> ELSE <<s[lo]>>)
  ELSE LET mid == (lo + hi) \div 2
       IN StripTagsBetween(s, lts, gts, lo, mid)
            \o StripTagsBetween(s, lts, gts, mid + 1, hi)

StripTags(s) ==
  StripTagsBetween(s, {i \in DOMAIN s : s[i] = "<"}, {i \in DOMAIN s : s[i] = ">"},
                   1, Len(s))

\* String.prototype.trim.
TrimStart(s) ==
  IF \A i \in DOMAIN s : s[i] \in Whitespace THEN <<>>
  ELSE SubSeq(s, CHOOSE i \in DOMAIN s :
                   s[i] \notin Whitespace /\ \A k \in 1..(i - 1) : s[k] \in Whitespace,
              Len(s))

TrimEnd(s) ==
  IF \A i \in DOMAIN s : s[i] \in Whitespace THEN <<>>
  ELSE SubSeq(s, 1, CHOOSE i \in DOMAIN s :
                      s[i] \notin Whitespace /\ \A k \in (i + 1)..Len(s) : s[k] \in Whitespace)

Trim(s) == TrimEnd(TrimStart(s))

\* String.prototype.slice(0, n).
Slice(s, n) == SubSeq(s, 1, IF Len(s) < n THEN Len(s) ELSE n)

(***************************************************************************)
(* Sanitizer.                                                              *)
(***************************************************************************)
EntLt == <<"&", "l", "t", ";">>
EntGt == <<"&", "g", "t", ";">>
EntAmp == <<"&", "a", "m", "p", ";">>
EntQuot == <<"&", "q", "u", "o", "t", ";">>
EntApos == <<"&", "#", "x", "2", "7", ";">>

containsHTML(str) == \E i \in 1..Len(str) : TagEnd(str, i) # 0

\* sanitizeString without the re-encoding of '<' and '>'.
sanitizeString_NoEncode(str) ==
  LET s1 == StripTags(str)
      s2 == ReplaceAll(s1, EntLt, <<"<">>)
      s3 == ReplaceAll(s2, EntGt, <<">">>)
      s4 == ReplaceAll(s3, EntAmp, <<"&">>)
      s5 == ReplaceAll(s4, EntQuot, <<"\"">>)
      s6 == ReplaceAll(s5, EntApos, <<"'">>)
  IN Trim(s6)

sanitizeString(str) ==
  LET s1 == StripTags(str)
      s2 == ReplaceAll(s1, EntLt, <<"<">>)
      s3 == ReplaceAll(s2, EntGt, <<">">>)
      s4 == ReplaceAll(s3, EntAmp, <<"&">>)
      s5 == ReplaceAll(s4, EntQuot, <<"\"">>)
      s6 == ReplaceAll(s5, EntApos, <<"'">>)
      s7 == ReplaceAll(s6, <<"<">>, EntLt)
      s8 == ReplaceAll(s7, <<">">>, EntGt)
  IN Trim(s8)


(***************************************************************************)
(* Values.                                                                 *)
(***************************************************************************)
Str(s) == [t |-> "str", v |-> s]
Undef == [t |-> "undef", v |-> <<>>]
Null == [t |-> "null", v |-> <<>>]
Num == [t |-> "num", v |-> <<>>]
Zero == [t |-> "zero", v |-> <<>>]
True == [t |-> "true", v |-> <<>>]
False == [t |-> "false", v |-> <<>>]

\* The elements of a sequence, as a set.
Range(seq) == { seq[i] : i \in DOMAIN seq }

\* All sequences over S of length at most n.
SeqsUpTo(S, n) == UNION { [1..k -> S] : k \in 0..n }

(***************************************************************************)
(* Schema validator.                                                       *)
(*                                                                         *)
(* An element of an array, and the top-level value, is a record whose t is *)
(* its kind and whose other fields are its properties (Undef when the      *)
(* property is absent).  An array-valued property is [t |-> "arr", e |->   *)
(* elements].                                                              *)
(***************************************************************************)
MAX_ACTIVITIES == 10000
MAX_LOGS == 100000
MAX_NAME_LENGTH == 100
MAX_COLOR_LENGTH == 20
MAX_ID_LENGTH == 100
MAX_NOTES_LENGTH == 1000

\* !x
Falsy(x) ==
  \/ x.t \in {"undef", "null", "false", "zero"}
  \/ x.t = "str" /\ x.v = <<>>

\* !x || typeof x !== 'object'
NotAnObject(x) == Falsy(x) \/ x.t \notin {"obj", "arr", "null"}

IsString(x) == x.t = "str"

IsBoolean(x) == x.t \in {"true", "false"}

\* An error: field is the path base[at].prop (at = -1: no index part,
\* prop = "": no property part), index is the element index (-1: absent).
Err(base, at, prop, message, index) ==
  [field |-> [base |-> base, at |-> at, prop |-> prop],
   message |-> message, index |-> index]

Lower == {"a", "b", "c", "d", "e", "f", "g", "h", "i", "j", "k", "l", "m",
          "n", "o", "p", "q", "r", "s", "t", "u", "v", "w", "x", "y", "z"}
Upper == {"A", "B", "C", "D", "E", "F", "G", "H", "I", "J", "K", "L", "M",
          "N", "O", "P", "Q", "R", "S", "T", "U", "V", "W", "X", "Y", "Z"}
DigitChars == <<"0", "1", "2", "3", "4", "5", "6", "7", "8", "9">>
Digits == Range(DigitChars)
HexDigits ==
  Digits \cup {"a", "b", "c", "d", "e", "f", "A", "B", "C", "D", "E", "F"}

\* /^[a-zA-Z0-9_-]+$/
validIdPattern(id) ==
  /\ id # <<>>
  /\ \A i \in DOMAIN id : id[i] \in Lower \cup Upper \cup Digits \cup {"_", "-"}

\* validateId with its four checks chained by else.
validateId_ElseIf(id, base, at, prop, index) ==
  IF Len(id) = 0
  THEN <<Err(base, at, prop, "ID cannot be empty.", index)>>
  ELSE IF Len(id) > MAX_ID_LENGTH
  THEN <<Err(base, at, prop, "ID exceeds maximum length of MAX_ID_LENGTH characters.", index)>>
  ELSE IF containsHTML(id)
  THEN <<Err(base, at, prop, "ID contains invalid characters (HTML tags are not allowed).", index)>>
  ELSE IF ~validIdPattern(id)
  THEN <<Err(base, at, prop, "ID contains invalid characters. Only alphanumeric characters, hyphens, and underscores are allowed.", index)>>
  ELSE <<>>

validateId(id, base, at, prop, index) ==
  (IF Len(id) = 0
   THEN <<Err(base, at, prop, "ID cannot be empty.", index)>> ELSE <<>>)
  \o
  (IF Len(id) > MAX_ID_LENGTH
   THEN <<Err(base, at, prop, "ID exceeds maximum length of MAX_ID_LENGTH characters.", index)>>
   ELSE <<>>)
  \o
  (IF containsHTML(id)
   THEN <<Err(base, at, prop, "ID contains invalid characters (HTML tags are not allowed).", index)>>
   ELSE <<>>)
  \o
  (IF ~validIdPattern(id)
   THEN <<Err(base, at, prop, "ID contains invalid characters. Only alphanumeric characters, hyphens, and underscores are allowed.", index)>>
   ELSE <<>>)

\* /^#[A-Fa-f0-9]+$/
isValidHexColor_AnyLength(color) ==
  /\ Len(color) >= 2
  /\ color[1] = "#"
  /\ \A i \in 2..Len(color) : color[i] \in HexDigits

\* /^#([A-Fa-f0-9]{6}|[A-Fa-f0-9]{3})$/
isValidHexColor(color) ==
  /\ Len(color) \in {4, 7}
  /\ color[1] = "#"
  /\ \A i \in 2..Len(color) : color[i] \in HexDigits

DigitVal(c) == (CHOOSE i \in 1..10 : DigitChars[i] = c) - 1

\* Number("dd..d")
RECURSIVE ToNumber(_)
ToNumber(ds) ==
  IF ds = <<>> THEN 0
  ELSE 10 * ToNumber(SubSeq(ds, 1, Len(ds) - 1)) + DigitVal(ds[Len(ds)])

IsLeapYear(y) == (y % 4 = 0 /\ y % 100 # 0) \/ y % 400 = 0

\* Days of month m (0 = January) of year y.
DaysInMonth(y, m) ==
  IF m = 1 THEN (IF IsLeapYear(y) THEN 29 ELSE 28)
  ELSE IF m \in {3, 5, 8, 10} THEN 30 ELSE 31

\* The calendar date d - 1 days after the first of month m of year y (d >= 1).
RECURSIVE RollDays(_, _, _)
RollDays(y, m, d) ==
  IF d <= DaysInMonth(y, m) THEN [year |-> y, month |-> m, date |-> d]
  ELSE IF m = 11 THEN RollDays(y + 1, 0, d - DaysInMonth(y, m))
  ELSE RollDays(y, m + 1, d - DaysInMonth(y, m))

\* new Date(year, monthIndex, day) in local time, as getFullYear, getMonth
\* and getDate report it: a year 0..99 means 1900 + year, the month index
\* and the day carry over (monthIndex >= -1, day >= 0).
NewDate(year, monthIndex, day) ==
  LET yy == IF year \in 0..99 THEN 1900 + year ELSE year
      y == IF monthIndex < 0 THEN yy - 1 ELSE yy + (monthIndex \div 12)
      m == IF monthIndex < 0 THEN monthIndex + 12 ELSE monthIndex % 12
  IN IF day >= 1 THEN RollDays(y, m, day)
     ELSE IF m = 0 THEN [year |-> y - 1, month |-> 11, date |-> 31]
     ELSE [year |-> y, month |-> m - 1, date |-> DaysInMonth(y, m - 1)]

\* /^\d{4}-\d{2}-\d{2}$/
datePattern(date) ==
  /\ Len(date) = 10
  /\ \A i \in {1, 2, 3, 4, 6, 7, 9, 10} : date[i] \in Digits
  /\ date[5] = "-" /\ date[8] = "-"

isValidDateFormat(date) ==
  IF ~datePattern(date) THEN FALSE
  ELSE LET year == ToNumber(SubSeq(date, 1, 4))
           month == ToNumber(SubSeq(date, 6, 7))
           day == ToNumber(SubSeq(date, 9, 10))
           dateObj == NewDate(year, month - 1, day)
       IN /\ dateObj.year = year
          /\ dateObj.month = month - 1
          /\ dateObj.date = day

\* Strings of the model that new Date(s) parses to a valid time; every other
\* string of the model parses to NaN.
ParseableTimestamps ==
  { <<"2", "0", "2", "4", "-", "0", "1", "-", "1", "5">>,
    <<"2", "0", "2", "4", "-", "0", "1", "-", "1", "6">> }

isValidISODate(dateString) == dateString \in ParseableTimestamps

\* The field checks of validateActivity, after its object check.
validateActivityFields(obj, index) ==
    \* id
    (IF ~IsString(obj.id)
     THEN <<Err("activities", index, "id", "Activity at index i must have a valid string ID.", index)>>
     ELSE validateId(obj.id.v, "activities", index, "id", index))
    \o
    \* name
    (IF ~IsString(obj.name)
     THEN <<Err("activities", index, "name", "Activity at index i must have a valid string name.", index)>>
     ELSE
       (IF Len(obj.name.v) = 0
        THEN <<Err("activities", index, "name", "Activity at index i name cannot be empty.", index)>>
        ELSE <<>>)
       \o
       (IF Len(obj.name.v) > MAX_NAME_LENGTH
        THEN <<Err("activities", index, "name", "Activity at index i name exceeds maximum length of MAX_NAME_LENGTH characters.", index)>>
        ELSE <<>>))
    \o
    \* color
    (IF ~IsString(obj.color)
     THEN <<Err("activities", index, "color", "Activity at index i must have a valid string color.", index)>>
     ELSE
       (IF ~isValidHexColor(obj.color.v)
        THEN <<Err("activities", index, "color", "Activity at index i has invalid color format. Must be a hex color (#RGB or #RRGGBB).", index)>>
        ELSE <<>>)
       \o
       (IF Len(obj.color.v) > MAX_COLOR_LENGTH
        THEN <<Err("activities", index, "color", "Activity at index i color exceeds maximum length of MAX_COLOR_LENGTH characters.", index)>>
        ELSE <<>>))
    \o
    \* createdAt
    (IF ~IsString(obj.createdAt)
     THEN <<Err("activities", index, "createdAt", "Activity at index i must have a valid createdAt timestamp.", index)>>
     ELSE IF ~isValidISODate(obj.createdAt.v)
     THEN <<Err("activities", index, "createdAt", "Activity at index i has invalid createdAt format. Must be a valid ISO date string.", index)>>
     ELSE <<>>)
    \o
    \* updatedAt
    (IF obj.updatedAt # Undef
     THEN IF ~IsString(obj.updatedAt)
          THEN <<Err("activities", index, "updatedAt", "Activity at index i updatedAt must be a valid string if provided.", index)>>
          ELSE IF ~isValidISODate(obj.updatedAt.v)
          THEN <<Err("activities", index, "updatedAt", "Activity at index i has invalid updatedAt format. Must be a valid ISO date string.", index)>>
          ELSE <<>>
     ELSE <<>>)

validateActivity_NoReturn(obj, index) ==
  IF NotAnObject(obj)
  THEN <<Err("activities", index, "", "Activity at index i must be a valid object.", index)>>
         \o validateActivityFields(obj, index)
  ELSE validateActivityFields(obj, index)

validateActivity(obj, index) ==
  IF NotAnObject(obj)
  THEN <<Err("activities", index, "", "Activity at index i must be a valid object.", index)>>
  ELSE validateActivityFields(obj, index)

\* The field checks of validateActivityLog, after its object check.
validateActivityLogFields(obj, index) ==
    \* id
    (IF ~IsString(obj.id)
     THEN <<Err("logs", index, "id", "Log at index i must have a valid string ID.", index)>>
     ELSE validateId(obj.id.v, "logs", index, "id", index))
    \o
    \* activityId
    (IF ~IsString(obj.activityId)
     THEN <<Err("logs", index, "activityId", "Log at index i must have a valid string activityId.", index)>>
     ELSE validateId(obj.activityId.v, "logs", index, "activityId", index))
    \o
    \* date
    (IF ~IsString(obj.date)
     THEN <<Err("logs", index, "date", "Log at index i must have a valid string date.", index)>>
     ELSE IF ~isValidDateFormat(obj.date.v)
     THEN <<Err("logs", index, "date", "Log at index i has invalid date format. Must be YYYY-MM-DD.", index)>>
     ELSE <<>>)
    \o
    \* completed
    (IF ~IsBoolean(obj.completed)
     THEN <<Err("logs", index, "completed", "Log at index i must have a boolean completed field.", index)>>
     ELSE <<>>)
    \o
    \* notes
    (IF obj.notes # Undef /\ obj.notes # Null
     THEN IF ~IsString(obj.notes)
          THEN <<Err("logs", index, "notes", "Log at index i notes must be a string if provided.", index)>>
          ELSE IF Len(obj.notes.v) > MAX_NOTES_LENGTH
          THEN <<Err("logs", index, "notes", "Log at index i notes exceeds maximum length of MAX_NOTES_LENGTH characters.", index)>>
          ELSE <<>>
     ELSE <<>>)
    \o
    \* createdAt
    (IF ~IsString(obj.createdAt)
     THEN <<Err("logs", index, "createdAt", "Log at index i must have a valid createdAt timestamp.", index)>>
     ELSE IF ~isValidISODate(obj.createdAt.v)
     THEN <<Err("logs", index, "createdAt", "Log at index i has invalid createdAt format. Must be a valid ISO date string.", index)>>
     ELSE <<>>)

validateActivityLog(obj, index) ==
  IF NotAnObject(obj)
  THEN <<Err("logs", index, "", "Log at index i must be a valid object.", index)>>
  ELSE validateActivityLogFields(obj, index)

\* The loop "for i: errors.push(...validateActivity(activities[i], i))" over
\* the positions lo..hi (index = position - 1); halving keeps the evaluation
\* shallow on arrays of MAX_ACTIVITIES elements.
RECURSIVE validateEachActivity_StopAtFirst(_, _, _)
validateEachActivity_StopAtFirst(arr, lo, hi) ==
  IF lo > hi THEN <<>>
  ELSE IF lo = hi THEN validateActivity(arr[lo], lo - 1)
  ELSE LET mid == (lo + hi) \div 2
           left == validateEachActivity_StopAtFirst(arr, lo, mid)
       IN IF left # <<>> THEN left
          ELSE validateEachActivity_StopAtFirst(arr, mid + 1, hi)

RECURSIVE validateEachActivity(_, _, _)
validateEachActivity(arr, lo, hi) ==
  IF lo > hi THEN <<>>
  ELSE IF lo = hi THEN validateActivity(arr[lo], lo - 1)
  ELSE LET mid == (lo + hi) \div 2
       IN validateEachActivity(arr, lo, mid)
            \o validateEachActivity(arr, mid + 1, hi)

\* The same loop over the logs.
RECURSIVE validateEachLog(_, _, _)
validateEachLog(arr, lo, hi) ==
  IF lo > hi THEN <<>>
  ELSE IF lo = hi THEN validateActivityLog(arr[lo], lo - 1)
  ELSE LET mid == (lo + hi) \div 2
       IN validateEachLog(arr, lo, mid) \o validateEachLog(arr, mid + 1, hi)

IsArray(x) == x.t = "arr"

validateImportDataWithErrors_CapOffByOne(data) ==
  IF NotAnObject(data)
  THEN [valid |-> FALSE,
        errors |-> <<Err("data", -1, "", "Import data must be a valid object.", -1)>>]
  ELSE
    LET errors ==
          (IF ~IsArray(data.activities)
           THEN <<Err("activities", -1, "", "Missing or invalid \"activities\" array.", -1)>>
           ELSE IF Len(data.activities.e) >= MAX_ACTIVITIES
           THEN <<Err("activities", -1, "", "Too many activities. Maximum allowed is MAX_ACTIVITIES, but found n.", -1)>>
           ELSE validateEachActivity(data.activities.e, 1, Len(data.activities.e)))
          \o
          (IF ~IsArray(data.logs)
           THEN <<Err("logs", -1, "", "Missing or invalid \"logs\" array.", -1)>>
           ELSE IF Len(data.logs.e) > MAX_LOGS
           THEN <<Err("logs", -1, "", "Too many log entries. Maximum allowed is MAX_LOGS, but found n.", -1)>>
           ELSE validateEachLog(data.logs.e, 1, Len(data.logs.e)))
    IN [valid |-> Len(errors) = 0, errors |-> errors]

validateImportDataWithErrors(data) ==
  IF NotAnObject(data)
  THEN [valid |-> FALSE,
        errors |-> <<Err("data", -1, "", "Import data must be a valid object.", -1)>>]
  ELSE
    LET errors ==
          (IF ~IsArray(data.activities)
           THEN <<Err("activities", -1, "", "Missing or invalid \"activities\" array.", -1)>>
           ELSE IF Len(data.activities.e) > MAX_ACTIVITIES
           THEN <<Err("activities", -1, "", "Too many activities. Maximum allowed is MAX_ACTIVITIES, but found n.", -1)>>
           ELSE validateEachActivity(data.activities.e, 1, Len(data.activities.e)))
          \o
          (IF ~IsArray(data.logs)
           THEN <<Err("logs", -1, "", "Missing or invalid \"logs\" array.", -1)>>
           ELSE IF Len(data.logs.e) > MAX_LOGS
           THEN <<Err("logs", -1, "", "Too many log entries. Maximum allowed is MAX_LOGS, but found n.", -1)>>
           ELSE validateEachLog(data.logs.e, 1, Len(data.logs.e)))
    IN [valid |-> Len(errors) = 0, errors |-> errors]

\* validateImportData looking at the top-level shape only.
validateImportData_ShapeOnly(data) ==
  ~NotAnObject(data) /\ IsArray(data.activities) /\ IsArray(data.logs)

validateImportData(data) == validateImportDataWithErrors(data).valid

(***************************************************************************)
(* Documents of the model.                                                 *)
(***************************************************************************)
Stamp == <<"2", "0", "2", "4", "-", "0", "1", "-", "1", "5">>
White == <<"#", "f", "f", "f">>

\* An activity object with valid id, color and createdAt.
Act(id, name, updatedAt) ==
  [t |-> "obj", v |-> <<>>, id |-> Str(id), name |-> Str(name),
   color |-> Str(White), createdAt |-> Str(Stamp), updatedAt |-> updatedAt,
   extra |-> Undef]

\* A value that is not an object, in the place of an activity.
NonAct(kind) ==
  [t |-> kind, v |-> <<>>, id |-> Undef, name |-> Undef, color |-> Undef,
   createdAt |-> Undef, updatedAt |-> Undef, extra |-> Undef]

\* {id: '', name: '', color: 'red'}
ActAllWrong ==
  [t |-> "obj", v |-> <<>>, id |-> Str(<<>>), name |-> Str(<<>>),
   color |-> Str(<<"r", "e", "d">>), createdAt |-> Undef, updatedAt |-> Undef,
   extra |-> Undef]

\* Activities that conform to the data model and whose name holds no
\* tag-like substring.
CleanActs ==
  { Act(<<"a", "1">>, <<"b">>, Str(Stamp)),
    Act(<<"a", "2">>, <<"b", "<">>, Undef),
    Act(<<"a", "1">>, <<"&", "a", "m", "p", ";", "b">>, Str(Stamp)),
    Act(<<"a", "2">>, <<" ", "b", "\"">>, Undef),
    Act(<<"a", "3">>, <<"&", "l", "t", ";", "\"">>, Undef) }

RawActs ==
  { Act(<<"a", "1">>, <<"b">>, Str(Stamp)),
    Act(<<"a", "3">>, <<"<", "b", ">", "b">>, Str(Stamp)),
    ActAllWrong, NonAct("null"), NonAct("num") }

\* A log object with valid id, activityId, date and createdAt.
Log(id, completed, notes) ==
  [t |-> "obj", v |-> <<>>, id |-> Str(id), activityId |-> Str(<<"a", "1">>),
   date |-> Str(Stamp), completed |-> completed, notes |-> notes,
   createdAt |-> Str(Stamp), extra |-> Undef]

NonLog(kind) ==
  [t |-> kind, v |-> <<>>, id |-> Undef, activityId |-> Undef, date |-> Undef,
   completed |-> Undef, notes |-> Undef, createdAt |-> Undef, extra |-> Undef]

\* A log on 2024-02-30 whose completed is a number.
LogWrong ==
  [Log(<<"l", "1">>, Num, Undef) EXCEPT
     !.date = Str(<<"2", "0", "2", "4", "-", "0", "2", "-", "3", "0">>)]

\* Logs that conform to the data model and whose notes hold no tag-like
\* substring.
CleanLogs ==
  { Log(<<"l", "1">>, True, Str(<<"b">>)),
    Log(<<"l", "2">>, False, Undef),
    Log(<<"l", "1">>, True, Str(<<>>)),
    Log(<<"l", "2">>, True, Str(<<" ", "b", ">">>)) }

RawLogs ==
  { Log(<<"l", "1">>, True, Str(<<"b">>)),
    Log(<<"l", "3">>, False, Null), LogWrong, NonLog("null") }

Arr(e) == [t |-> "arr", e |-> e]
NotArr(kind) == [t |-> kind, e |-> <<>>]

\* The top-level object {activities, logs, exportedAt, version}.
Doc(activities, logs) ==
  [t |-> "obj", v |-> <<>>, activities |-> activities, logs |-> logs,
   exportedAt |-> Str(Stamp), version |-> Str(<<"1", ".", "0">>)]

\* A top-level value that is not such an object (for an array or another
\* object the properties read as undefined).
NonDoc(kind) ==
  [t |-> kind, v |-> <<>>, activities |-> NotArr("undef"),
   logs |-> NotArr("undef"), exportedAt |-> Undef, version |-> Undef]

SmallDocs ==
  { Doc(Arr(pair.a), Arr(pair.l)) :
      pair \in { p \in [a : SeqsUpTo(RawActs, MaxActs), l : SeqsUpTo(RawLogs, MaxLogs)] :
                   Len(p.a) + Len(p.l) <= MaxRecords } }

OddDocs ==
  { NonDoc(k) : k \in {"null", "num", "zero", "true", "arr", "obj"} }
  \cup { Doc(a, l) : a \in {NotArr("undef"), NotArr("obj"), Arr(<<ActAllWrong>>)},
                     l \in {NotArr("undef"), NotArr("num"), Arr(<<LogWrong>>)} }

\* Array(n).fill(x)
Fill(x, n) == [i \in 1..n |-> x]

\* The validator harness names its argument by a document and, for an
\* array at a volume cap, the length to which the array's one element is
\* repeated (0: the array as it stands).
Input(doc, repeatActs, repeatLogs) ==
  [doc |-> doc, repeatActs |-> repeatActs, repeatLogs |-> repeatLogs]

Repeat(arr, n) == IF n = 0 THEN arr ELSE Arr(Fill(arr.e[1], n))

\* The value an input names.
Expand(input) ==
  [input.doc EXCEPT !.activities = Repeat(@, input.repeatActs),
                    !.logs = Repeat(@, input.repeatLogs)]

\* Arrays at and just over the volume caps.
CapAct == Act(<<"a", "1">>, <<"b">>, Undef)
CapLog == Log(<<"l", "1">>, True, Undef)

CapInputs ==
  { Input(Doc(Arr(<<CapAct>>), Arr(<<>>)), MAX_ACTIVITIES, 0),
    Input(Doc(Arr(<<CapAct>>), Arr(<<LogWrong>>)), MAX_ACTIVITIES + 1, 0),
    Input(Doc(Arr(<<ActAllWrong>>), Arr(<<>>)), MAX_ACTIVITIES + 1, 0),
    Input(Doc(Arr(<<>>), Arr(<<CapLog>>)), 0, MAX_LOGS),
    Input(Doc(Arr(<<ActAllWrong>>), Arr(<<CapLog>>)), 0, MAX_LOGS + 1),
    Input(Doc(Arr(<<>>), Arr(<<NonLog("null")>>)), 0, MAX_LOGS + 1) }

(***************************************************************************)
(* JSON text.  A text is the document it spells, with every string as the  *)
(* body of its literal (between the quotes), and whether the text is       *)
(* complete (all brackets and literals closed).                            *)
(***************************************************************************)
\* The body of the JSON literal of string s, as JSON.stringify writes it,
\* over the positions lo..hi (halving keeps the evaluation shallow).
RECURSIVE EscapeBetween(_, _, _)
EscapeBetween(s, lo, hi) ==
  IF lo > hi THEN <<>>
  ELSE IF lo = hi
  THEN (IF s[lo] = "\"" THEN <<"\\", "\"">>
        ELSE IF s[lo] = "\\" THEN <<"\\", "\\">>
        ELSE IF s[lo] = "\n" THEN <<"\\", "n">>
        ELSE <<s[lo]>>)
  ELSE LET mid == (lo + hi) \div 2
       IN EscapeBetween(s, lo, mid) \o EscapeBetween(s, mid + 1, hi)

JsonEscape(s) == EscapeBetween(s, 1, Len(s))

\* Whether position i of a literal body, whose backslashes stand at the
\* positions bs, opens an escape: a backslash after an even number of
\* backslashes in a row.
OpensEscape(bs, i) ==
  /\ i \in bs
  /\ LET run == CHOOSE n \in 0..Cardinality(bs) :
                  /\ \A k \in 1..n : (i - k) \in bs
                  /\ (i - n - 1) \notin bs
     IN run % 2 = 0

\* Whether b is the body of a JSON string literal: no bare quote or line
\* break, every backslash followed by an escape character.
IsLiteralBody(b) ==
  LET bs == {i \in DOMAIN b : b[i] = "\\"}
  IN \A i \in DOMAIN b :
       IF OpensEscape(bs, i)
       THEN i + 1 <= Len(b) /\ b[i + 1] \in {"\"", "\\", "n"}
       ELSE \/ OpensEscape(bs, i - 1)
            \/ b[i] \notin {"\"", "\n"}

\* A reader that takes a literal body for the string itself.
JsonUnescape_Raw(b) == b

\* The string a literal body spells over the positions lo..hi, as
\* JSON.parse reads it.
RECURSIVE UnescapeBetween(_, _, _, _)
UnescapeBetween(b, bs, lo, hi) ==
  IF lo > hi THEN <<>>
  ELSE IF lo = hi
  THEN (IF OpensEscape(bs, lo) THEN <<>>
        ELSE IF OpensEscape(bs, lo - 1) /\ b[lo] = "n" THEN <<"\n">>
        ELSE <<b[lo]>>)
  ELSE LET mid == (lo + hi) \div 2
       IN UnescapeBetween(b, bs, lo, mid) \o UnescapeBetween(b, bs, mid + 1, hi)

JsonUnescape(b) ==
  UnescapeBetween(b, {i \in DOMAIN b : b[i] = "\\"}, 1, Len(b))

EscapeValue(x) == IF IsString(x) THEN Str(JsonEscape(x.v)) ELSE x
UnescapeValue(x) == IF IsString(x) THEN Str(JsonUnescape(x.v)) ELSE x
IsWellFormedValue(x) == IsString(x) => IsLiteralBody(x.v)

EscapeActivity(a) ==
  [a EXCEPT !.id = EscapeValue(@), !.name = EscapeValue(@),
            !.color = EscapeValue(@), !.createdAt = EscapeValue(@),
            !.updatedAt = EscapeValue(@), !.extra = EscapeValue(@)]

EscapeLog(l) ==
  [l EXCEPT !.id = EscapeValue(@), !.activityId = EscapeValue(@),
            !.date = EscapeValue(@), !.notes = EscapeValue(@),
            !.createdAt = EscapeValue(@), !.extra = EscapeValue(@)]

UnescapeActivity(a) ==
  [a EXCEPT !.id = UnescapeValue(@), !.name = UnescapeValue(@),
            !.color = UnescapeValue(@), !.createdAt = UnescapeValue(@),
            !.updatedAt = UnescapeValue(@), !.extra = UnescapeValue(@)]

UnescapeLog(l) ==
  [l EXCEPT !.id = UnescapeValue(@), !.activityId = UnescapeValue(@),
            !.date = UnescapeValue(@), !.notes = UnescapeValue(@),
            !.createdAt = UnescapeValue(@), !.extra = UnescapeValue(@)]

IsWellFormedActivity(a) ==
  \A x \in {a.id, a.name, a.color, a.createdAt, a.updatedAt, a.extra} :
    IsWellFormedValue(x)

IsWellFormedLog(l) ==
  \A x \in {l.id, l.activityId, l.date, l.notes, l.createdAt, l.extra} :
    IsWellFormedValue(x)

\* JSON.stringify(value, null, 2): a property whose value is undefined is
\* left out (it stays Undef), strings become literals.
JSONstringify(doc) ==
  [closed |-> TRUE,
   doc |-> [doc EXCEPT
      !.activities = [@ EXCEPT !.e = [i \in DOMAIN @ |-> EscapeActivity(@[i])]],
      !.logs = [@ EXCEPT !.e = [i \in DOMAIN @ |-> EscapeLog(@[i])]],
      !.exportedAt = EscapeValue(@),
      !.version = EscapeValue(@)]]

\* JSON.parse(text): throws a SyntaxError on a text that is not JSON.
JSONparse(text) ==
  IF /\ text.closed
     /\ \A a \in Range(text.doc.activities.e) : IsWellFormedActivity(a)
     /\ \A l \in Range(text.doc.logs.e) : IsWellFormedLog(l)
     /\ IsWellFormedValue(text.doc.exportedAt)
     /\ IsWellFormedValue(text.doc.version)
  THEN [threw |-> FALSE,
        value |-> [text.doc EXCEPT
          !.activities = [@ EXCEPT !.e = [i \in DOMAIN @ |-> UnescapeActivity(@[i])]],
          !.logs = [@ EXCEPT !.e = [i \in DOMAIN @ |-> UnescapeLog(@[i])]],
          !.exportedAt = UnescapeValue(@),
          !.version = UnescapeValue(@)]]
  ELSE [threw |-> TRUE, value |-> NonDoc("undef")]

(***************************************************************************)
(* Export encoder.                                                         *)
(***************************************************************************)
\* The value of an expression that throws a TypeError.
TypeError == [t |-> "throw", v |-> <<>>]

\* The outcome of a call: a returned value, or an exception.
Returned(x) == [threw |-> FALSE, value |-> x]

exportToJSON(activities, logs, now) ==
  JSONstringify([t |-> "obj", v |-> <<>>, activities |-> Arr(activities),
                 logs |-> Arr(logs), exportedAt |-> Str(now),
                 version |-> Str(<<"1", ".", "0">>)])

\* escapeCSV wrapping a field without doubling its quotes.
escapeCSV_NoDoubling(value) ==
  IF ~IsString(value) THEN TypeError
  ELSE IF \E c \in {",", "\"", "\n"} : Includes(value.v, <<c>>)
  THEN Str(<<"\"">> \o value.v \o <<"\"">>)
  ELSE value

escapeCSV(value) ==
  IF ~IsString(value) THEN TypeError
  ELSE IF \E c \in {",", "\"", "\n"} : Includes(value.v, <<c>>)
  THEN Str(<<"\"">> \o ReplaceAll(value.v, <<"\"">>, <<"\"", "\"">>) \o <<"\"">>)
  ELSE value

\* `${a},${b},...`: the fields joined by commas; a throwing field throws.
RECURSIVE JoinValues(_, _)
JoinValues(fields, sep) ==
  IF fields = <<>> THEN Str(<<>>)
  ELSE IF Len(fields) = 1 THEN Head(fields)
  ELSE LET rest == JoinValues(Tail(fields), sep)
       IN IF Head(fields) = TypeError \/ rest = TypeError THEN TypeError
          ELSE Str(Head(fields).v \o sep \o rest.v)

\* `${log.completed}`
BooleanText(x) ==
  IF x = True THEN Str(<<"t", "r", "u", "e">>)
  ELSE IF x = False THEN Str(<<"f", "a", "l", "s", "e">>)
  ELSE Str(<<"u", "n", "d", "e", "f", "i", "n", "e", "d">>)

\* x || ''
OrEmpty(x) == IF Falsy(x) THEN Str(<<>>) ELSE x

activityLine(activity) ==
  JoinValues(<<escapeCSV(activity.id), escapeCSV(activity.name),
               escapeCSV(activity.color), escapeCSV(activity.createdAt),
               escapeCSV(activity.updatedAt)>>, <<",">>)

logLine(log) ==
  JoinValues(<<escapeCSV(log.id), escapeCSV(log.activityId),
               escapeCSV(log.date), BooleanText(log.completed),
               escapeCSV(OrEmpty(log.notes)), escapeCSV(log.createdAt)>>, <<",">>)

exportToCSV(activities, logs) ==
  LET lines ==
        <<Str(<<"#", " ", "A", "c", "t", "i", "v", "i", "t", "i", "e", "s">>), Str(<<"i", "d", ",", "n", "a", "m", "e", ",", "c", "o", "l", "o", "r", ",", "c", "r", "e", "a", "t", "e", "d", "A", "t", ",", "u", "p", "d", "a", "t", "e", "d", "A", "t">>)>>
        \o [i \in DOMAIN activities |-> activityLine(activities[i])]
        \o <<Str(<<>>), Str(<<"#", " ", "L", "o", "g", "s">>), Str(<<"i", "d", ",", "a", "c", "t", "i", "v", "i", "t", "y", "I", "d", ",", "d", "a", "t", "e", ",", "c", "o", "m", "p", "l", "e", "t", "e", "d", ",", "n", "o", "t", "e", "s", ",", "c", "r", "e", "a", "t", "e", "d", "A", "t">>)>>
        \o [i \in DOMAIN logs |-> logLine(logs[i])]
      text == JoinValues(lines, <<"\n">>)
  IN IF text = TypeError THEN [threw |-> TRUE, value |-> Str(<<>>)]
     ELSE Returned(text)

(***************************************************************************)
(* Import pipeline.                                                        *)
(***************************************************************************)
\* x.trim()
trim(x) == IF IsString(x) THEN Str(Trim(x.v)) ELSE TypeError

\* x.slice(0, n) on the result of a string method
slice(x, n) == IF IsString(x) THEN Str(Slice(x.v, n)) ELSE TypeError

\* sanitizeString(x) on a value: x.replace throws on anything but a string.
sanitizeStringOf(x) == IF IsString(x) THEN Str(sanitizeString(x.v)) ELSE TypeError

\* sanitizeActivity truncating the name before it is sanitized.
sanitizeActivity_TruncateFirst(activity) ==
  [activity EXCEPT
     !.t = "obj",
     !.id = trim(@),
     !.name = sanitizeStringOf(slice(@, MAX_NAME_LENGTH)),
     !.color = slice(trim(@), MAX_COLOR_LENGTH)]

\* sanitizeActivity cutting the id at the limit of the color.
sanitizeActivity_ShortId(activity) ==
  [activity EXCEPT
     !.t = "obj",
     !.id = slice(trim(@), MAX_COLOR_LENGTH),
     !.name = slice(sanitizeStringOf(@), MAX_NAME_LENGTH),
     !.color = slice(trim(@), MAX_COLOR_LENGTH)]

sanitizeActivity(activity) ==
  [activity EXCEPT
     !.t = "obj",
     !.id = trim(@),
     !.name = slice(sanitizeStringOf(@), MAX_NAME_LENGTH),
     !.color = slice(trim(@), MAX_COLOR_LENGTH)]

\* sanitizeActivityLog with notes: log.notes && sanitizeString(log.notes)...
sanitizeActivityLog_KeepFalsy(log) ==
  [log EXCEPT
     !.t = "obj",
     !.id = trim(@),
     !.activityId = trim(@),
     !.date = trim(@),
     !.notes = IF ~Falsy(@) THEN slice(sanitizeStringOf(@), MAX_NOTES_LENGTH)
               ELSE @]

\* sanitizeActivityLog building the record from the declared fields only.
sanitizeActivityLog_DeclaredOnly(log) ==
  [log EXCEPT
     !.t = "obj",
     !.id = trim(@),
     !.activityId = trim(@),
     !.date = trim(@),
     !.notes = IF ~Falsy(@) THEN slice(sanitizeStringOf(@), MAX_NOTES_LENGTH)
               ELSE Undef,
     !.extra = Undef]

sanitizeActivityLog(log) ==
  [log EXCEPT
     !.t = "obj",
     !.id = trim(@),
     !.activityId = trim(@),
     !.date = trim(@),
     !.notes = IF ~Falsy(@) THEN slice(sanitizeStringOf(@), MAX_NOTES_LENGTH)
               ELSE Undef]

NoResult == [valid |-> FALSE, errors |-> <<>>]

NoData == [present |-> FALSE, activities |-> <<>>, logs |-> <<>>]

InvalidJSON ==
  Err("file", -1, "", "Invalid JSON format. The file could not be parsed.", -1)

\* A validator result, which holds no sanitizedData, as the pipeline's result.
AsResult(r) == [valid |-> r.valid, errors |-> r.errors, sanitizedData |-> NoData]

Thrown == [threw |-> TRUE, value |-> AsResult(NoResult)]

\* The pipeline without the catch around JSON.parse.
parseImportFileWithValidation_NoCatch(content) ==
  LET parsed == JSONparse(content)
      data == parsed.value
      structureResult == validateImportDataWithErrors(data)
  IN IF parsed.threw THEN Thrown
     ELSE IF ~structureResult.valid THEN Returned(AsResult(structureResult))
     ELSE Returned([valid |-> TRUE, errors |-> <<>>,
                    sanitizedData |->
                      [present |-> TRUE,
                       activities |-> [i \in DOMAIN data.activities.e |->
                                         sanitizeActivity(data.activities.e[i])],
                       logs |-> [i \in DOMAIN data.logs.e |->
                                   sanitizeActivityLog(data.logs.e[i])]]])

\* The pipeline reporting only the first error of a rejected value.
parseImportFileWithValidation_FirstError(content) ==
  LET parsed == JSONparse(content)
      data == parsed.value
      structureResult == validateImportDataWithErrors(data)
  IN IF parsed.threw
     THEN Returned([valid |-> FALSE, errors |-> <<InvalidJSON>>,
                    sanitizedData |-> NoData])
     ELSE IF ~structureResult.valid
     THEN Returned([valid |-> FALSE, errors |-> <<Head(structureResult.errors)>>,
                    sanitizedData |-> NoData])
     ELSE Returned([valid |-> TRUE, errors |-> <<>>,
                    sanitizedData |->
                      [present |-> TRUE,
                       activities |-> [i \in DOMAIN data.activities.e |->
                                         sanitizeActivity(data.activities.e[i])],
                       logs |-> [i \in DOMAIN data.logs.e |->
                                   sanitizeActivityLog(data.logs.e[i])]]])

parseImportFileWithValidation(content) ==
  LET parsed == JSONparse(content)
      data == parsed.value
      structureResult == validateImportDataWithErrors(data)
      sanitizedActivities ==
        [i \in DOMAIN data.activities.e |-> sanitizeActivity(data.activities.e[i])]
      sanitizedLogs ==
        [i \in DOMAIN data.logs.e |-> sanitizeActivityLog(data.logs.e[i])]
  IN IF parsed.threw
     THEN Returned([valid |-> FALSE, errors |-> <<InvalidJSON>>,
                    sanitizedData |-> NoData])
     ELSE IF ~structureResult.valid THEN Returned(AsResult(structureResult))
     ELSE IF \/ ~IsArray(data.activities) \/ ~IsArray(data.logs)
             \/ \E a \in Range(sanitizedActivities) :
                  TypeError \in {a.id, a.name, a.color}
             \/ \E l \in Range(sanitizedLogs) :
                  TypeError \in {l.id, l.activityId, l.date, l.notes}
     THEN Thrown
     ELSE Returned([valid |-> TRUE, errors |-> <<>>,
                    sanitizedData |-> [present |-> TRUE,
                                       activities |-> sanitizedActivities,
                                       logs |-> sanitizedLogs]])

\* parseImportFile returning the parsed value of a file that passes
\* validateImportData, as it stands.
parseImportFile_Raw(content) ==
  LET parsed == JSONparse(content)
  IN IF ~parsed.threw /\ validateImportData(parsed.value)
     THEN [threw |-> FALSE, isNull |-> FALSE,
           data |-> [present |-> TRUE, activities |-> parsed.value.activities.e,
                     logs |-> parsed.value.logs.e]]
     ELSE [threw |-> FALSE, isNull |-> TRUE, data |-> NoData]

\* The deprecated parseImportFile: null, or the sanitizedData.
parseImportFile(content) ==
  LET result == parseImportFileWithValidation(content)
  IN IF result.threw THEN [threw |-> TRUE, isNull |-> TRUE, data |-> NoData]
     ELSE IF ~result.value.valid \/ ~result.value.sanitizedData.present
     THEN [threw |-> FALSE, isNull |-> TRUE, data |-> NoData]
     ELSE [threw |-> FALSE, isNull |-> FALSE, data |-> result.value.sanitizedData]

(***************************************************************************)
(* Each harness below exercises one part of the module; the variables of   *)
(* the other harnesses then rest at these values.                          *)
(***************************************************************************)
SanIdle ==
  /\ sanPc = "idle"
  /\ sanIn = <<>>
  /\ sanOut = <<>>
  /\ sanOut2 = <<>>

MrgNoArgs == [ea |-> <<>>, el |-> <<>>, ia |-> <<>>, il |-> <<>>]

MrgIdle ==
  /\ mrgPc = "idle"
  /\ mrgCall = MrgNoArgs
  /\ mrgArgs = MrgNoArgs
  /\ mrgRet = [activities |-> <<>>, logs |-> <<>>]
  /\ mrgRet2 = [activities |-> <<>>, logs |-> <<>>]

ValIdle ==
  /\ valPc = "idle"
  /\ valData = [doc |-> Undef, repeatActs |-> 0, repeatLogs |-> 0]
  /\ valRes = NoResult

NoText == [closed |-> FALSE, doc |-> NonDoc("undef")]
NoOutput == [kind |-> "none", threw |-> FALSE, csv |-> <<>>, json |-> NoText]
EmptyStore == [activities |-> <<>>, logs |-> <<>>]

NoLegacy ==
  [kind |-> "none", threw |-> FALSE, isNull |-> TRUE, data |-> NoData, ok |-> FALSE]

PipIdle ==
  /\ pipPc = "idle"
  /\ pipStore = EmptyStore
  /\ pipExported = NoData
  /\ pipContent = NoText
  /\ pipRes = Thrown
  /\ pipOut = NoOutput
  /\ pipLegacy = NoLegacy

FldIdle ==
  /\ fldPc = "idle"
  /\ fldObj = NonAct("undef")
  /\ fldErrs = <<>>

Epoch == [year |-> 1970, month |-> 1, day |-> 1, hour |-> 0]

FnIdle ==
  /\ fnPc = "idle"
  /\ fnNow = Epoch
  /\ fnOffset = 0
  /\ fnFormat = <<>>
  /\ fnOut = <<>>

\* getItem has not been called since the last step.
NotRead == [t |-> "none", v |-> <<>>, call |-> 0]

\* null, as a stored item.
NoItem == [t |-> "null", v |-> <<>>, call |-> 0]

DsIdle ==
  /\ dsUseIdle = FALSE
  /\ dsPending = NoItem
  /\ dsScheduled = 0
  /\ dsLocal = NoItem
  /\ dsCallbacks = {}
  /\ dsNext = 1
  /\ dsCalls = <<>>
  /\ dsWrites = <<>>
  /\ dsGot = NotRead

\* No step of the toast store has been taken.
NoStep == [op |-> "none", id |-> [at |-> 0, rnd |-> 0]]

TstIdle ==
  /\ tstToasts = <<>>
  /\ tstTimers = {}
  /\ tstNow = 0
  /\ tstNext = 1
  /\ tstAdded = <<>>
  /\ tstRemoved = {}
  /\ tstLast = NoStep
  /\ tstPrev = <<>>

\* The navigation state of a new store (the year and month of the clock).
FirstNav ==
  [selectedYear |-> 2024, selectedDate |-> Null, currentView |-> "year",
   selectedMonth |-> 0]

\* No action of the store has been called.
NoCall == [op |-> "none", id |-> Undef, date |-> Undef]

StoreOf(activities, logs, nav) == [activities |-> activities, logs |-> logs, nav |-> nav]

StoIdle ==
  /\ stoActivities = <<>>
  /\ stoLogs = <<>>
  /\ stoNav = FirstNav
  /\ stoNext = 1
  /\ stoOps = 0
  /\ stoImported = FALSE
  /\ stoOrphan = FALSE
  /\ stoLast = NoCall
  /\ stoPrev = StoreOf(<<>>, <<>>, FirstNav)
  /\ stoLast2 = NoCall
  /\ stoPrev2 = StoreOf(<<>>, <<>>, FirstNav)

\* No file has been selected.
NoFile == [name |-> <<>>, size |-> 0, content |-> NoText]

\* error: null, or a message.
NoError == [set |-> FALSE, message |-> ""]
Message(m) == [set |-> TRUE, message |-> m]

\* The modal's state of a new component, which resetState restores.
ModIdle ==
  /\ modImportMode = "merge"
  /\ modIsDragging = FALSE
  /\ modParsedData = NoData
  /\ modError = NoError
  /\ modValidationErrors = <<>>
  /\ modShowConfirm = FALSE
  /\ modIsImporting = FALSE
  /\ modReads = {}
  /\ modCount = 0
  /\ modSelected = NoFile
  /\ modFrom = NoFile
  /\ modPrev = [parsedData |-> NoData, importMode |-> "merge", from |-> NoFile,
                selected |-> NoFile]

LibIdle == SanIdle /\ MrgIdle /\ ValIdle /\ PipIdle /\ FldIdle /\ FnIdle

AppIdle == DsIdle /\ TstIdle /\ StoIdle /\ ModIdle

\* mergeData appending every imported log, whether its id exists or not.
mergeData_LogsUnfiltered(existingActivities, existingLogs, importedActivities, importedLogs) ==
  LET existingActivityIds == { a.id : a \in Range(existingActivities) }
      newActivities ==
        SelectSeq(importedActivities, LAMBDA a : a.id \notin existingActivityIds)
  IN [activities |-> existingActivities \o newActivities,
      logs |-> existingLogs \o importedLogs]

(***************************************************************************)
(* Merge engine.                                                           *)
(***************************************************************************)
mergeData_ImportedFirst(existingActivities, existingLogs, importedActivities, importedLogs) ==
  LET existingActivityIds == { a.id : a \in Range(existingActivities) }
      existingLogIds == { l.id : l \in Range(existingLogs) }
      newActivities ==
        SelectSeq(importedActivities, LAMBDA a : a.id \notin existingActivityIds)
      newLogs == SelectSeq(importedLogs, LAMBDA l : l.id \notin existingLogIds)
  IN [activities |-> newActivities \o existingActivities,
      logs |-> newLogs \o existingLogs]

mergeData(existingActivities, existingLogs, importedActivities, importedLogs) ==
  LET existingActivityIds == { a.id : a \in Range(existingActivities) }
      existingLogIds == { l.id : l \in Range(existingLogs) }
      newActivities ==
        SelectSeq(importedActivities, LAMBDA a : a.id \notin existingActivityIds)
      newLogs == SelectSeq(importedLogs, LAMBDA l : l.id \notin existingLogIds)
  IN [activities |-> existingActivities \o newActivities,
      logs |-> existingLogs \o newLogs]

(***************************************************************************)
(* Merge harness: mergeData is called once on four arrays.  mrgCall holds  *)
(* the arguments as passed, mrgArgs the four arrays as they are in memory. *)
(***************************************************************************)
\* Entities of the harness: two versions of "a" and one "b".
MrgPool ==
  { [id |-> Str(<<"a">>), name |-> Str(<<"x">>)],
    [id |-> Str(<<"a">>), name |-> Str(<<"y">>)],
    [id |-> Str(<<"b">>), name |-> Str(<<"x">>)] }


InitMerge ==
  /\ mrgPc = "call"
  /\ \E na, nl \in {MaxMerge, MaxMergeOther} :
       /\ na # nl
       /\ mrgCall \in [ea : SeqsUpTo(MrgPool, na), ia : SeqsUpTo(MrgPool, na),
                       el : SeqsUpTo(MrgPool, nl), il : SeqsUpTo(MrgPool, nl)]
       /\ Len(mrgCall.ea) + Len(mrgCall.ia) + Len(mrgCall.el) + Len(mrgCall.il)
            <= MaxMergeTotal
  /\ mrgArgs = mrgCall
  /\ mrgRet = [activities |-> <<>>, logs |-> <<>>]
  /\ mrgRet2 = [activities |-> <<>>, logs |-> <<>>]
  /\ SanIdle /\ ValIdle /\ PipIdle /\ FldIdle /\ FnIdle /\ AppIdle

MergeData ==
  /\ mrgPc = "call"
  /\ mrgRet' = mergeData(mrgArgs.ea, mrgArgs.el, mrgArgs.ia, mrgArgs.il)
  /\ mrgPc' = "merged"
  /\ UNCHANGED <<mrgCall, mrgArgs, mrgRet2, sanVars, valVars, pipVars, fldVars, fnVars, appVars>>

\* The same imported arrays are merged into the result of the first call.
MergeDataAgain ==
  /\ mrgPc = "merged"
  /\ mrgRet2' = mergeData(mrgRet.activities, mrgRet.logs, mrgArgs.ia, mrgArgs.il)
  /\ mrgPc' = "again"
  /\ UNCHANGED <<mrgCall, mrgArgs, mrgRet, sanVars, valVars, pipVars, fldVars, fnVars, appVars>>

NextMerge == MergeData \/ MergeDataAgain

SpecMerge == InitMerge /\ [][NextMerge]_vars

NoTwoShareId(seq) ==
  \A i, j \in DOMAIN seq : seq[i].id = seq[j].id => i = j

\* C3: the merged activities hold no two elements with the same id, and
\* neither do the merged logs.
C3_MergeHasNoDuplicateIds ==
  mrgPc = "merged" =>
    NoTwoShareId(mrgRet.activities) /\ NoTwoShareId(mrgRet.logs)

\* The imported elements whose id no existing element has, in imported
\* order, written as a left-to-right scan.
RECURSIVE ImportedNotExisting(_, _)
ImportedNotExisting(imported, existing) ==
  IF imported = <<>> THEN <<>>
  ELSE LET rest == ImportedNotExisting(Tail(imported), existing)
       IN IF \E i \in DOMAIN existing : existing[i].id = Head(imported).id
          THEN rest
          ELSE <<Head(imported)>> \o rest

\* out is existing, element for element, followed by exactly the imported
\* elements with an id that does not occur in existing.
IsExistingThenNew(out, existing, imported) ==
  /\ Len(out) >= Len(existing)
  /\ \A i \in DOMAIN existing : out[i] = existing[i]
  /\ SubSeq(out, Len(existing) + 1, Len(out))
       = ImportedNotExisting(imported, existing)

\* C4: the merged activities are the existing ones unchanged and in order,
\* then the imported ones with a new id in imported order; the same for
\* logs; and the four argument arrays are as they were passed.
C4_ExistingWinsMerge ==
  mrgPc = "merged" =>
    /\ IsExistingThenNew(mrgRet.activities, mrgCall.ea, mrgCall.ia)
    /\ IsExistingThenNew(mrgRet.logs, mrgCall.el, mrgCall.il)
    /\ mrgArgs = mrgCall

\* An imported entity shares its id with an existing one that differs from
\* it, another imported entity is new, and the merge has returned.
C4_Witness ==
  /\ mrgPc = "merged"
  /\ \E i \in DOMAIN mrgCall.ia, j \in DOMAIN mrgCall.ea :
       mrgCall.ia[i].id = mrgCall.ea[j].id /\ mrgCall.ia[i] # mrgCall.ea[j]
  /\ \E i \in DOMAIN mrgCall.ia :
       \A j \in DOMAIN mrgCall.ea : mrgCall.ia[i].id # mrgCall.ea[j].id
  /\ mrgCall.el # <<>> /\ mrgCall.il # <<>>

(***************************************************************************)
(* Validator harness: validateImportDataWithErrors is called on a value.   *)
(***************************************************************************)
InitValidate ==
  /\ valPc = "call"
  /\ valData \in { Input(d, 0, 0) : d \in SmallDocs \cup OddDocs } \cup CapInputs
  /\ valRes = NoResult
  /\ SanIdle /\ MrgIdle /\ PipIdle /\ FldIdle /\ FnIdle /\ AppIdle

ValidateImportDataWithErrors ==
  /\ valPc = "call"
  /\ valRes' = validateImportDataWithErrors(Expand(valData))
  /\ valPc' = "done"
  /\ UNCHANGED <<valData, sanVars, mrgVars, pipVars, fldVars, fnVars, appVars>>

NextValidate == ValidateImportDataWithErrors

SpecValidate == InitValidate /\ [][NextValidate]_vars

\* The errors of a result on one array, and on one element of it.
ErrorsOn(errors, base) == SelectSeq(errors, LAMBDA e : e.field.base = base)

ErrorsAt(errors, base, index) ==
  SelectSeq(errors, LAMBDA e : e.field.base = base /\ e.index = index)

TooManyActivities ==
  Err("activities", -1, "", "Too many activities. Maximum allowed is MAX_ACTIVITIES, but found n.", -1)

TooManyLogs ==
  Err("logs", -1, "", "Too many log entries. Maximum allowed is MAX_LOGS, but found n.", -1)

\* C8: an array of exactly the cap with valid elements is accepted; one
\* element more yields exactly the one "Too many" error on that array and no
\* element error for it, whatever the elements; the other array is
\* validated all the same.
C8_VolumeCap ==
  valPc = "done" /\ valData.doc.t = "obj" =>
    LET acts == Expand(valData).activities
        logs == Expand(valData).logs
        es == valRes.errors
    IN /\ IsArray(acts) /\ Len(acts.e) = MAX_ACTIVITIES
            /\ Range(acts.e) \subseteq CleanActs \cup {CapAct}
          => ErrorsOn(es, "activities") = <<>>
       /\ IsArray(logs) /\ Len(logs.e) = MAX_LOGS
            /\ Range(logs.e) \subseteq CleanLogs \cup {CapLog}
          => ErrorsOn(es, "logs") = <<>>
       /\ IsArray(acts) /\ Len(acts.e) = MAX_ACTIVITIES + 1
          => /\ ErrorsOn(es, "activities") = <<TooManyActivities>>
             /\ ErrorsOn(es, "logs")
                  = validateImportDataWithErrors(Doc(Arr(<<>>), logs)).errors
       /\ IsArray(logs) /\ Len(logs.e) = MAX_LOGS + 1
          => /\ ErrorsOn(es, "logs") = <<TooManyLogs>>
             /\ ErrorsOn(es, "activities")
                  = validateImportDataWithErrors(Doc(acts, Arr(<<>>))).errors
       /\ valRes.valid <=> es = <<>>

\* The activities are one over the cap and the only log is invalid: the
\* result holds the cap error and the log's errors.
C8_Witness ==
  /\ valPc = "done"
  /\ valData.doc.t = "obj"
  /\ IsArray(valData.doc.activities)
  /\ valData.repeatActs = MAX_ACTIVITIES + 1
  /\ valData.doc.logs = Arr(<<LogWrong>>)
  /\ Len(valRes.errors) > 1
  /\ valRes.errors[1] = TooManyActivities

\* Whether the array is validated element by element.
WithinLimit(arr, max) == IsArray(arr) /\ Len(arr.e) <= max

\* C9: for an object input the errors are the array-level errors plus,
\* for every array within its limit, the errors of every element as that
\* element yields them alone at its index; both missing arrays are
\* reported; every failing field of an element is reported.
C9_ErrorAccumulation ==
  valPc = "done" /\ valData.doc.t \in {"obj", "arr"} =>
    LET acts == Expand(valData).activities
        logs == Expand(valData).logs
        es == valRes.errors
    IN /\ ~IsArray(acts) =>
            ErrorsOn(es, "activities")
              = <<Err("activities", -1, "", "Missing or invalid \"activities\" array.", -1)>>
       /\ ~IsArray(logs) =>
            ErrorsOn(es, "logs")
              = <<Err("logs", -1, "", "Missing or invalid \"logs\" array.", -1)>>
       /\ WithinLimit(acts, MAX_ACTIVITIES) =>
            /\ \A i \in DOMAIN acts.e :
                 ErrorsAt(es, "activities", i - 1) = validateActivity(acts.e[i], i - 1)
            /\ \A k \in DOMAIN es :
                 es[k].field.base = "activities" => es[k].index + 1 \in DOMAIN acts.e
       /\ WithinLimit(logs, MAX_LOGS) =>
            /\ \A i \in DOMAIN logs.e :
                 ErrorsAt(es, "logs", i - 1) = validateActivityLog(logs.e[i], i - 1)
            /\ \A k \in DOMAIN es :
                 es[k].field.base = "logs" => es[k].index + 1 \in DOMAIN logs.e
       /\ \A k \in DOMAIN es : es[k].field.base \in {"activities", "logs"}
       /\ WithinLimit(acts, MAX_ACTIVITIES) =>
            \A i \in DOMAIN acts.e :
              acts.e[i] = ActAllWrong =>
                {"id", "name", "color", "createdAt"} \subseteq
                  { e.field.prop : e \in Range(ErrorsAt(es, "activities", i - 1)) }

\* Two activities and a log are invalid, the first activity in four fields:
\* the result holds errors for all three elements.
C9_Witness ==
  /\ valPc = "done"
  /\ valData = Input(Doc(Arr(<<ActAllWrong, NonAct("null")>>), Arr(<<LogWrong>>)), 0, 0)
  /\ Len(valRes.errors) >= 7

IsNonNullObject(x) == x.t \in {"obj", "arr"}

\* C10: a top-level value that is not a non-null object yields exactly one
\* error, on field 'data'; an element that is not a non-null object yields
\* exactly one error, on field 'activities[i]' or 'logs[i]' with index i.
C10_NonObjectShortCircuit ==
  valPc = "done" =>
    LET acts == Expand(valData).activities
        logs == Expand(valData).logs
        es == valRes.errors
    IN IF ~IsNonNullObject(valData.doc)
       THEN /\ Len(es) = 1
            /\ es[1].field = [base |-> "data", at |-> -1, prop |-> ""]
       ELSE /\ WithinLimit(acts, MAX_ACTIVITIES) =>
                 \A i \in DOMAIN acts.e :
                   ~IsNonNullObject(acts.e[i]) =>
                     LET ee == ErrorsAt(es, "activities", i - 1)
                     IN /\ Len(ee) = 1
                        /\ ee[1].field = [base |-> "activities", at |-> i - 1, prop |-> ""]
            /\ WithinLimit(logs, MAX_LOGS) =>
                 \A i \in DOMAIN logs.e :
                   ~IsNonNullObject(logs.e[i]) =>
                     LET ee == ErrorsAt(es, "logs", i - 1)
                     IN /\ Len(ee) = 1
                        /\ ee[1].field = [base |-> "logs", at |-> i - 1, prop |-> ""]

\* An activity and a log that are null sit beside an invalid object: each
\* null yields its one error.
C10_Witness ==
  /\ valPc = "done"
  /\ valData = Input(Doc(Arr(<<ActAllWrong, NonAct("null")>>), Arr(<<NonLog("null")>>)), 0, 0)
  /\ Len(valRes.errors) > 2


(***************************************************************************)
(* Field-rule harness: validateActivity or validateActivityLog is called   *)
(* on an object that is valid except for one field.                        *)
(***************************************************************************)
IdChars == {"a", "Z", "0", "_", "<", ">", " "}

\* Ids with a hyphen and with a dot, and ids at and over the length limit.
LongIds ==
  { <<"a", "-", "1">>,
    <<"-">>,
    <<"a", ".", "1">>,
    <<".">>,
    Fill("a", MAX_ID_LENGTH),
    Fill("a", MAX_ID_LENGTH + 1),
    Fill("a", MAX_ID_LENGTH - 1) \o <<".">>,
    Fill("a", MAX_ID_LENGTH - 3) \o <<"<", "b", ">">>,
    Fill("a", MAX_ID_LENGTH - 2) \o <<"<", "b", ">">>,
    Fill("-", MAX_ID_LENGTH) \o <<" ">> }

Ids == SeqsUpTo(IdChars, MaxIdLen) \cup LongIds

BaseAct == Act(<<"a", "1">>, <<"b">>, Undef)
BaseLog == Log(<<"l", "1">>, True, Undef)

\* Colors: a prefix and a run of one character, mixed-case hex colors,
\* near misses, and strings at and over the length limit.
Colors ==
  { p \o Fill(c, n) : p \in {<<>>, <<"#">>, <<"x">>},
                      c \in {"0", "f", "F", "a", "g", "G", " "},
                      n \in 0..8 }
  \cup { <<"#", "0", "f", "A">>,
         <<"#", "0", "0", "f", "f", "A", "a">>,
         <<"#", "f", "f", "g">>,
         <<"#", "f", "f", "f", "\n">>,
         <<" ", "#", "f", "f", "f">>,
         <<"#", "f", "f", "#">>,
         <<"r", "e", "d">>,
         <<"#">> \o Fill("f", MAX_COLOR_LENGTH - 1),
         <<"#">> \o Fill("f", MAX_COLOR_LENGTH),
         <<"#", "f", "f", "f">> \o Fill(" ", MAX_COLOR_LENGTH - 3),
         Fill("g", MAX_COLOR_LENGTH + 1) }

FieldActs ==
  { [BaseAct EXCEPT !.id = Str(i)] : i \in Ids }
  \cup { [BaseAct EXCEPT !.color = Str(c)] : c \in Colors }

\* The decimal numeral of n in two and in four digits.
TwoDigits(n) == <<DigitChars[(n \div 10) + 1], DigitChars[(n % 10) + 1]>>
FourDigits(n) == TwoDigits(n \div 100) \o TwoDigits(n % 100)

DateYears == {0, 50, 99, 100, 1900, 2000, 2023, 2024, 9999}

\* Strings of the form YYYY-MM-DD: months 00..13, days 00..32.
ShapedDates ==
  { FourDigits(y) \o <<"-">> \o TwoDigits(mo) \o <<"-">> \o TwoDigits(d) :
      y \in DateYears, mo \in 0..13, d \in 0..32 }

\* Strings of other forms.
OddDates ==
  { <<>>,
    <<"2", "0", "2", "4", "/", "0", "1", "/", "1", "5">>,
    <<"2", "0", "2", "4", "-", "1", "-", "1", "5">>,
    <<"2", "4", "-", "0", "1", "-", "1", "5">>,
    <<"2", "0", "2", "4", "-", "0", "1", "-", "1", "5", " ">>,
    <<"2", "0", "2", "4", "-", "0", "1", "-", "1", "5", "\n">>,
    <<" ", "2", "0", "2", "4", "-", "0", "1", "-", "1", "5">>,
    <<"2", "0", "2", "4", "-", "0", "1", "-", "1", "a">>,
    <<"2", "0", "2", "4", "0", "1", "1", "5">>,
    <<"2", "0", "2", "4", "-", "0", "1", "-", "1", "5", "T", "0", "0">> }

FieldLogs ==
  { [BaseLog EXCEPT !.id = Str(i)] : i \in Ids }
  \cup { [BaseLog EXCEPT !.activityId = Str(i)] : i \in Ids }
  \cup { [BaseLog EXCEPT !.date = Str(d)] : d \in ShapedDates \cup OddDates }

InitField ==
  /\ \/ fldPc = "activity" /\ fldObj \in FieldActs
     \/ fldPc = "log" /\ fldObj \in FieldLogs
  /\ fldErrs = <<>>
  /\ SanIdle /\ MrgIdle /\ ValIdle /\ PipIdle /\ FnIdle /\ AppIdle

ValidateActivity ==
  /\ fldPc = "activity"
  /\ fldErrs' = validateActivity(fldObj, 0)
  /\ fldPc' = "activityDone"
  /\ UNCHANGED <<fldObj, sanVars, mrgVars, valVars, pipVars, fnVars, appVars>>

ValidateActivityLog ==
  /\ fldPc = "log"
  /\ fldErrs' = validateActivityLog(fldObj, 0)
  /\ fldPc' = "logDone"
  /\ UNCHANGED <<fldObj, sanVars, mrgVars, valVars, pipVars, fnVars, appVars>>

NextField == ValidateActivity \/ ValidateActivityLog

SpecField == InitField /\ [][NextField]_vars

\* The messages of the errors reported on property prop, in order.
MessagesOn(prop) ==
  LET es == SelectSeq(fldErrs, LAMBDA e : e.field.prop = prop)
  IN [i \in DOMAIN es |-> es[i].message]

IdAlphabet == Lower \cup Upper \cup Digits \cup {"_", "-"}

\* Some '<' is followed, not necessarily at once, by a '>'.
HasTagLike(s) ==
  \E i \in DOMAIN s : \E j \in DOMAIN s : i < j /\ s[i] = "<" /\ s[j] = ">"

IdRule(id, prop) ==
  LET msgs == Range(MessagesOn(prop))
      ok == Len(id) \in 1..100 /\ \A i \in DOMAIN id : id[i] \in IdAlphabet
      empty == "ID cannot be empty." \in msgs
      long == "ID exceeds maximum length of MAX_ID_LENGTH characters." \in msgs
      html == "ID contains invalid characters (HTML tags are not allowed)." \in msgs
      chars == "ID contains invalid characters. Only alphanumeric characters, hyphens, and underscores are allowed." \in msgs
  IN /\ (msgs = {}) <=> ok
     /\ empty <=> (id = <<>>)
     /\ long <=> (Len(id) > 100)
     /\ html <=> HasTagLike(id)
     /\ chars <=> (id = <<>> \/ \E i \in DOMAIN id : id[i] \notin IdAlphabet)
     /\ (id = <<>>) => (empty /\ chars)
     /\ HasTagLike(id) => (html /\ chars)
     /\ Len(MessagesOn(prop)) = Cardinality(msgs)

\* C11: a string id (activity id, log id, log activityId) gets no error
\* exactly when it has 1..100 characters, all in [A-Za-z0-9_-]; each of the
\* four checks (empty, too long, tag-like substring, character pattern)
\* reports on its own, so the empty id gets the 'empty' and the 'invalid
\* characters' error and an id with a tag-like substring gets the 'HTML
\* tags' and the 'invalid characters' error.
C11_IdRule ==
  /\ fldPc = "activityDone" => IdRule(fldObj.id.v, "id")
  /\ fldPc = "logDone" =>
       IdRule(fldObj.id.v, "id") /\ IdRule(fldObj.activityId.v, "activityId")

\* A log activityId over the limit with a tag-like substring: three errors.
C11_Witness ==
  /\ fldPc = "logDone"
  /\ Len(fldObj.activityId.v) > 100
  /\ HasTagLike(fldObj.activityId.v)
  /\ Len(MessagesOn("activityId")) = 3
  /\ MessagesOn("id") = <<>>

\* Whether s has the form YYYY-MM-DD in ASCII digits.
HasDateForm(s) ==
  /\ Len(s) = 10
  /\ s[5] = "-" /\ s[8] = "-"
  /\ \A i \in {1, 2, 3, 4, 6, 7, 9, 10} : s[i] \in Digits

\* Days of month mo (1..12) of year y in the Gregorian calendar.
GregorianDays(y, mo) ==
  IF mo = 2
  THEN (IF y % 400 = 0 \/ (y % 4 = 0 /\ y % 100 # 0) THEN 29 ELSE 28)
  ELSE IF mo \in {4, 6, 9, 11} THEN 30 ELSE 31

\* Whether a string of the form YYYY-MM-DD names a day of the calendar.
IsRealDate(s) ==
  LET y == ToNumber(SubSeq(s, 1, 4))
      mo == ToNumber(SubSeq(s, 6, 7))
      d == ToNumber(SubSeq(s, 9, 10))
  IN mo \in 1..12 /\ d \in 1..GregorianDays(y, mo)

\* C12: a log's date string gets no error exactly when it has the form
\* YYYY-MM-DD and names a real calendar date (month 1..12, day within the
\* month under the Gregorian leap-year rule), for every year 0000..9999.
C12_DateRealism ==
  fldPc = "logDone" =>
    ((MessagesOn("date") = <<>>) <=>
       (HasDateForm(fldObj.date.v) /\ IsRealDate(fldObj.date.v)))

HexAlphabet ==
  {"0", "1", "2", "3", "4", "5", "6", "7", "8", "9",
   "a", "b", "c", "d", "e", "f", "A", "B", "C", "D", "E", "F"}

\* '#' followed by exactly three or exactly six hexadecimal digits.
IsHexColor(s) ==
  /\ Len(s) = 4 \/ Len(s) = 7
  /\ Head(s) = "#"
  /\ \A i \in DOMAIN Tail(s) : Tail(s)[i] \in HexAlphabet

\* C13: a string color gets no error exactly when it is '#' and three or
\* six hexadecimal digits of either case; the format check and the length
\* check are both made, so a color of more than 20 characters gets the
\* format error and the length error, and the length error never comes
\* without the format error.
C13_ColorRule ==
  fldPc = "activityDone" =>
    LET color == fldObj.color.v
        msgs == MessagesOn("color")
        format == "Activity at index i has invalid color format. Must be a hex color (#RGB or #RRGGBB)."
        length == "Activity at index i color exceeds maximum length of MAX_COLOR_LENGTH characters."
    IN /\ (msgs = <<>>) <=> IsHexColor(color)
       /\ (format \in Range(msgs)) <=> ~IsHexColor(color)
       /\ (length \in Range(msgs)) <=> (Len(color) > 20)
       /\ Len(color) > 20 => msgs = <<format, length>>
       /\ (length \in Range(msgs)) => (format \in Range(msgs))

\* A color of 21 characters, '#' and hexadecimal digits throughout.
C13_Witness ==
  /\ fldPc = "activityDone"
  /\ Len(fldObj.color.v) = 21
  /\ Head(fldObj.color.v) = "#"
  /\ \A i \in 2..21 : fldObj.color.v[i] \in HexAlphabet
  /\ Len(MessagesOn("color")) = 2

(***************************************************************************)
(* Import/export pipeline.  Either a data set is exported to JSON and the  *)
(* file is imported, or a given file is imported; an accepted import       *)
(* replaces the store, which is then exported.                             *)
(***************************************************************************)
\* Names, notes and updatedAt values for documents of one activity and one
\* log: at and over the length limits, growing under escaping, emptied by
\* the sanitizer, with the characters CSV quotes, and of other types.
NameValues ==
  { Str(Fill("b", MAX_NAME_LENGTH)),
    Str(Fill("b", MAX_NAME_LENGTH + 1)),
    Str(Fill("<", MAX_NAME_LENGTH)),
    Str(Fill("b", MAX_NAME_LENGTH - 1) \o <<"<">>),
    Str(<<"<", "b", ">">>),
    Str(<<" ">>),
    Str(<<"<", "b", ">", "b", "<", "/", "b", ">">>),
    Str(<<"&", "l", "t", ";", "b", "&", "g", "t", ";">>),
    Str(<<"b", ",", "b">>),
    Str(<<"b", "\n", "b">>),
    Str(<<>>) }

NotesValues ==
  { Undef, Null, Num, Zero, False, [t |-> "obj", v |-> <<>>],
    Str(<<>>),
    Str(<<"b">>),
    Str(Fill("b", MAX_NOTES_LENGTH)),
    Str(Fill("b", MAX_NOTES_LENGTH + 1)),
    Str(Fill(">", MAX_NOTES_LENGTH)),
    Str(Fill("b", MAX_NOTES_LENGTH - 1) \o <<"<">>),
    Str(<<"<", "b", ">">>),
    Str(<<"b", ",", "\"", "b">>),
    Str(<<"b", "\n", "b">>) }

UpdatedAtValues ==
  { Undef, Null, Num, [t |-> "obj", v |-> <<>>], Str(Stamp), Str(<<>>),
    Str(<<"n", "o", "p", "e">>) }

FullAct == Act(<<"a", "1">>, <<"b">>, Str(Stamp))

\* Values of a property that is not a declared field: markup, a padded
\* string, a string longer than every limit, and other types.
ExtraValues ==
  { Str(<<"<", "b", ">", "x", "<", "/", "b", ">">>),
    Str(<<" ", "x", "&", "l", "t", ";", " ">>),
    Str(Fill("<", MAX_NOTES_LENGTH + 1)),
    Null, Num, [t |-> "obj", v |-> <<>>] }

\* A valid file whose ids have the maximum length and whose name and notes
\* are changed by the sanitizer.
LongIdDoc ==
  LET id == Str(Fill("a", MAX_ID_LENGTH))
  IN Doc(Arr(<<[FullAct EXCEPT !.id = id, !.name = Str(<<"<", "b", ">", "b">>)]>>),
         Arr(<<[BaseLog EXCEPT !.id = id, !.activityId = id,
                               !.notes = Str(<<" ", "b", " ">>)]>>))

FieldDocs ==
  { LongIdDoc }
  \cup { Doc(Arr(<<[FullAct EXCEPT !.extra = x]>>), Arr(<<BaseLog>>)) :
           x \in ExtraValues }
  \cup { Doc(Arr(<<ActAllWrong>>), Arr(<<[BaseLog EXCEPT !.extra = x]>>)) :
           x \in ExtraValues }
  \cup { Doc(Arr(<<FullAct>>), Arr(<<[BaseLog EXCEPT !.extra = x]>>)) :
           x \in ExtraValues }
  \cup
  { Doc(Arr(<<[FullAct EXCEPT !.name = n]>>), Arr(<<>>)) : n \in NameValues }
  \cup { Doc(Arr(<<[FullAct EXCEPT !.updatedAt = u]>>), Arr(<<BaseLog>>)) :
           u \in UpdatedAtValues }
  \cup { Doc(Arr(<<FullAct>>), Arr(<<[BaseLog EXCEPT !.notes = n]>>)) :
           n \in NotesValues }

\* Values of new Date().toISOString() at the moment of an export.
Nows == {Stamp, <<"2", "0", "2", "4", "-", "0", "1", "-", "1", "6">>}

\* Data sets that conform to the data model, names and notes free of
\* tag-like substrings, of at most MaxActs records in all.
DataSets ==
  { d \in { [activities |-> a, logs |-> l] : a \in SeqsUpTo(CleanActs, MaxActs),
                                            l \in SeqsUpTo(CleanLogs, MaxLogs) } :
      Len(d.activities) + Len(d.logs) <= MaxActs }

\* A file cut short, and a file with a bare quote inside a string.
MalformedTexts ==
  { [closed |-> FALSE, doc |-> JSONstringify(d).doc] :
      d \in {NonDoc("obj"), Doc(Arr(<<>>), Arr(<<>>)),
             Doc(Arr(<<CapAct>>), Arr(<<CapLog>>)), Doc(Arr(<<ActAllWrong>>), Arr(<<>>))} }
  \cup { [closed |-> TRUE,
          doc |-> Doc(Arr(<<Act(<<"a", "1">>, <<"b", "\"">>, Undef)>>), Arr(<<>>))],
         [closed |-> TRUE,
          doc |-> Doc(Arr(<<>>), Arr(<<Log(<<"l", "1">>, True, Str(<<"\\", "b">>))>>))] }

FileTexts ==
  { JSONstringify(d) : d \in SmallDocs \cup OddDocs \cup FieldDocs }
  \cup MalformedTexts

Init ==
  /\ \/ /\ pipPc = "dataset"
        /\ pipStore \in DataSets
        /\ pipContent = NoText
     \/ /\ pipPc = "file"
        /\ pipStore = EmptyStore
        /\ pipContent \in FileTexts
  /\ pipExported = NoData
  /\ pipRes = Thrown
  /\ pipOut = NoOutput
  /\ pipLegacy = NoLegacy
  /\ SanIdle /\ MrgIdle /\ ValIdle /\ FldIdle /\ FnIdle /\ AppIdle

\* The data set is exported to a file.
ExportToJSON ==
  /\ pipPc = "dataset"
  /\ \E now \in Nows :
       pipContent' = exportToJSON(pipStore.activities, pipStore.logs, now)
  /\ pipExported' = [present |-> TRUE, activities |-> pipStore.activities,
                     logs |-> pipStore.logs]
  /\ pipPc' = "file"
  /\ UNCHANGED <<pipStore, pipRes, pipOut, pipLegacy, sanVars, mrgVars, valVars, fldVars, fnVars, appVars>>

\* The file is imported.
ParseImportFileWithValidation ==
  /\ pipPc = "file"
  /\ pipRes' = parseImportFileWithValidation(pipContent)
  /\ pipPc' = "parsed"
  /\ UNCHANGED <<pipStore, pipExported, pipContent, pipOut, pipLegacy, sanVars, mrgVars, valVars, fldVars, fnVars, appVars>>

\* The user confirms an accepted import in replace mode.
ConfirmImport ==
  /\ pipPc = "parsed"
  /\ ~pipRes.threw
  /\ pipRes.value.sanitizedData.present
  /\ pipStore' = [activities |-> pipRes.value.sanitizedData.activities,
                  logs |-> pipRes.value.sanitizedData.logs]
  /\ pipPc' = "stored"
  /\ UNCHANGED <<pipExported, pipContent, pipRes, pipOut, pipLegacy, sanVars, mrgVars, valVars, fldVars, fnVars, appVars>>

\* The store is exported as CSV.
ExportToCSV ==
  /\ pipPc = "stored"
  /\ LET out == exportToCSV(pipStore.activities, pipStore.logs)
     IN pipOut' = [kind |-> "csv", threw |-> out.threw, csv |-> out.value.v,
                   json |-> NoText]
  /\ pipPc' = "exported"
  /\ UNCHANGED <<pipStore, pipExported, pipContent, pipRes, pipLegacy, sanVars, mrgVars, valVars, fldVars, fnVars, appVars>>

\* The store is exported as JSON.
ExportStoreToJSON ==
  /\ pipPc = "stored"
  /\ \E now \in Nows :
       pipOut' = [kind |-> "json", threw |-> FALSE, csv |-> <<>>,
                  json |-> exportToJSON(pipStore.activities, pipStore.logs, now)]
  /\ pipPc' = "exported"
  /\ UNCHANGED <<pipStore, pipExported, pipContent, pipRes, pipLegacy, sanVars, mrgVars, valVars, fldVars, fnVars, appVars>>

\* The file is imported through the deprecated parseImportFile.
ParseImportFile ==
  /\ pipPc = "file"
  /\ LET ret == parseImportFile(pipContent)
     IN pipLegacy' = [kind |-> "parse", threw |-> ret.threw, isNull |-> ret.isNull,
                      data |-> ret.data, ok |-> FALSE]
  /\ pipPc' = "legacy"
  /\ UNCHANGED <<pipStore, pipExported, pipContent, pipRes, pipOut, sanVars, mrgVars, valVars, fldVars, fnVars, appVars>>

\* The parsed value of the file is checked by the boolean validateImportData.
ValidateImportData ==
  /\ pipPc = "file"
  /\ ~JSONparse(pipContent).threw
  /\ pipLegacy' = [kind |-> "validate", threw |-> FALSE, isNull |-> TRUE,
                   data |-> NoData,
                   ok |-> validateImportData(JSONparse(pipContent).value)]
  /\ pipPc' = "legacy"
  /\ UNCHANGED <<pipStore, pipExported, pipContent, pipRes, pipOut, sanVars, mrgVars, valVars, fldVars, fnVars, appVars>>

Next ==
  \/ ExportToJSON
  \/ ParseImportFileWithValidation
  \/ ParseImportFile
  \/ ValidateImportData
  \/ ConfirmImport
  \/ ExportToCSV
  \/ ExportStoreToJSON

Spec == Init /\ [][Next]_vars

\* The import has returned or thrown.
Imported == pipPc \in {"parsed", "stored", "exported"}

\* The file being imported was written by exportToJSON from a data set.
RoundTrip == Imported /\ pipExported.present

\* The names of the exported activities and the notes of the exported logs.
ExportedTexts ==
  { a.name.v : a \in Range(pipExported.activities) }
  \cup { l.notes.v : l \in { x \in Range(pipExported.logs) : IsString(x.notes) } }

\* C2 (as stated): when a data set that conforms to the data model, with
\* every name and notes free of tag-like substrings and within its length
\* limit, is exported to JSON and the file imported, the result is valid and
\* its sanitizedData equals the data set record for record.
C2_RoundTrip ==
  RoundTrip =>
    /\ ~pipRes.threw
    /\ pipRes.value.valid
    /\ pipRes.value.sanitizedData = pipExported

\* A string the sanitizer leaves as it is: no '<' or '>', none of the
\* entities it decodes without encoding back, no whitespace at either end.
Settled(s) ==
  /\ ~Includes(s, <<"<">>)
  /\ ~Includes(s, <<">">>)
  /\ ~Includes(s, EntAmp)
  /\ ~Includes(s, EntQuot)
  /\ ~Includes(s, EntApos)
  /\ Trim(s) = s

AllSettled ==
  /\ \A s \in ExportedTexts : Settled(s)
  /\ \A l \in Range(pipExported.logs) : l.notes # Str(<<>>)

\* C2 (amended): the round trip returns the data set record for record when,
\* in addition, every name and notes holds no '<' or '>', none of '&amp;',
\* '&quot;', '&#x27;', no leading or trailing whitespace, and no log has the
\* empty string as notes.
C2_RoundTripSettled ==
  (RoundTrip /\ AllSettled) =>
    /\ ~pipRes.threw
    /\ pipRes.value.valid
    /\ pipRes.value.sanitizedData = pipExported

\* A round trip of an activity whose name holds an entity and a quote, and
\* a log with notes.
C2_Witness ==
  /\ RoundTrip /\ AllSettled
  /\ \E a \in Range(pipExported.activities) :
       Includes(a.name.v, EntLt) /\ Includes(a.name.v, <<"\"">>)
  /\ \E l \in Range(pipExported.logs) : IsString(l.notes)
  /\ pipRes.value.sanitizedData = pipExported

\* C5: after an accepted import has replaced the store, exportToCSV and
\* exportToJSON of the store return a string and do not throw.
C5_ExportNeverThrows ==
  pipPc = "exported" => ~pipOut.threw

\* C6: parseImportFileWithValidation returns a result and never throws; on
\* a text that is not JSON the result is invalid, holds the one error of
\* field 'file' and nothing from the validator, and has no sanitizedData.
C6_FailuresAreData ==
  Imported =>
    /\ ~pipRes.threw
    /\ JSONparse(pipContent).threw =>
         /\ ~pipRes.value.valid
         /\ Len(pipRes.value.errors) = 1
         /\ pipRes.value.errors[1].field = [base |-> "file", at |-> -1, prop |-> ""]
         /\ pipRes.value.errors = <<InvalidJSON>>
         /\ ~pipRes.value.sanitizedData.present

\* The import of a complete text with a bare quote inside a string.
C6_Witness ==
  /\ pipPc = "parsed"
  /\ pipContent.closed
  /\ JSONparse(pipContent).threw
  /\ ~pipRes.threw
  /\ Len(pipRes.value.errors) = 1

\* C7: in a result of parseImportFileWithValidation, valid is true exactly
\* when errors is empty and exactly when sanitizedData is present; a parsed
\* value the validator rejects yields the validator's own result.
C7_ValidIffNoErrorsIffData ==
  (Imported /\ ~pipRes.threw) =>
    /\ pipRes.value.valid <=> (pipRes.value.errors = <<>>)
    /\ pipRes.value.valid <=> pipRes.value.sanitizedData.present
    /\ LET parsed == JSONparse(pipContent)
           structureResult == validateImportDataWithErrors(parsed.value)
       IN (~parsed.threw /\ ~structureResult.valid) =>
            pipRes.value = AsResult(structureResult)

\* The import of a file whose value the validator rejects with several
\* errors.
C7_Witness ==
  /\ pipPc = "parsed"
  /\ ~pipRes.threw
  /\ ~JSONparse(pipContent).threw
  /\ ~pipRes.value.valid
  /\ Len(pipRes.value.errors) >= 3
  /\ ~pipRes.value.sanitizedData.present

\* The value JSON.parse returns for the file, once it has been imported
\* and is JSON.
Parsed == JSONparse(pipContent).value

ImportedJSON == Imported /\ ~pipRes.threw /\ ~JSONparse(pipContent).threw

\* The errors of the result on property prop of element i (from 1) of an
\* array.
PropErrors(base, i, prop) ==
  SelectSeq(pipRes.value.errors,
            LAMBDA e : e.field = [base |-> base, at |-> i - 1, prop |-> prop])

\* C14: a log whose notes is absent or null gets no notes error and has
\* notes undefined in sanitizedData; any other notes gets a notes error
\* exactly when it is not a string or is longer than 1000.  An activity
\* whose updatedAt is absent gets no updatedAt error; any other updatedAt,
\* null included, gets one unless it is a string that parses as a date.
C14_OptionalFields ==
  LET parsed == Parsed IN
  (ImportedJSON /\ IsNonNullObject(parsed)) =>
    /\ WithinLimit(parsed.logs, MAX_LOGS) =>
         \A i \in DOMAIN parsed.logs.e :
           LET log == parsed.logs.e[i]
               errs == PropErrors("logs", i, "notes")
           IN IsNonNullObject(log) =>
                /\ log.notes \in {Undef, Null} =>
                     /\ errs = <<>>
                     /\ pipRes.value.valid =>
                          pipRes.value.sanitizedData.logs[i].notes = Undef
                /\ log.notes \notin {Undef, Null} =>
                     ((errs # <<>>) <=>
                        (~IsString(log.notes) \/ Len(log.notes.v) > 1000))
    /\ WithinLimit(parsed.activities, MAX_ACTIVITIES) =>
         \A i \in DOMAIN parsed.activities.e :
           LET activity == parsed.activities.e[i]
               errs == PropErrors("activities", i, "updatedAt")
           IN IsNonNullObject(activity) =>
                /\ activity.updatedAt = Undef => errs = <<>>
                /\ activity.updatedAt # Undef =>
                     ((errs = <<>>) <=>
                        /\ IsString(activity.updatedAt)
                        /\ activity.updatedAt.v \in ParseableTimestamps)

\* A valid import of a log whose notes is null.
C14_Witness ==
  /\ ImportedJSON
  /\ pipRes.value.valid
  /\ \E i \in DOMAIN Parsed.logs.e :
       /\ Parsed.logs.e[i].notes = Null
       /\ pipRes.value.sanitizedData.logs[i].notes = Undef

\* The import has returned a valid result.
ValidImport == Imported /\ ~pipRes.threw /\ pipRes.value.valid

SanitizedActivities == pipRes.value.sanitizedData.activities
SanitizedLogs == pipRes.value.sanitizedData.logs

NoAngle(s) == \A i \in DOMAIN s : s[i] # "<" /\ s[i] # ">"

\* C15: in the sanitizedData of a valid import no activity name and no
\* defined log notes holds a '<' or a '>' character, truncated or not.
C15_NoAngleBrackets ==
  ValidImport =>
    /\ \A i \in DOMAIN SanitizedActivities : NoAngle(SanitizedActivities[i].name.v)
    /\ \A i \in DOMAIN SanitizedLogs :
         SanitizedLogs[i].notes # Undef =>
           /\ IsString(SanitizedLogs[i].notes)
           /\ NoAngle(SanitizedLogs[i].notes.v)

\* A valid import of a name of entities that decode to a tag.
C15_Witness ==
  /\ ValidImport
  /\ \E i \in DOMAIN SanitizedActivities :
       /\ Includes(Parsed.activities.e[i].name.v, EntLt)
       /\ Includes(Parsed.activities.e[i].name.v, EntGt)
       /\ Includes(SanitizedActivities[i].name.v, EntLt)
       /\ NoAngle(SanitizedActivities[i].name.v)

\* C16: every activity in the sanitizedData of a valid import has a name
\* of 1 to 100 characters, never the empty string.
C16_NameLength ==
  ValidImport =>
    \A i \in DOMAIN SanitizedActivities :
      Len(SanitizedActivities[i].name.v) \in 1..100

\* C17: in sanitizedData each name is the first 100 characters of
\* sanitizeString(raw name) and each defined notes the first 1000
\* characters of sanitizeString(raw notes); so a name has at most 100 and
\* notes at most 1000 characters also when escaping lengthens the string,
\* and a raw value of the maximum length with nothing to sanitize comes
\* back whole.
C17_TruncateAfterSanitize ==
  LET parsed == Parsed IN
  ValidImport =>
    /\ \A i \in DOMAIN SanitizedActivities :
         LET raw == parsed.activities.e[i].name.v
             name == SanitizedActivities[i].name.v
         IN /\ name = Slice(sanitizeString(raw), 100)
            /\ Len(name) <= 100
            /\ (Len(raw) = 100 /\ Settled(raw)) => name = raw
    /\ \A i \in DOMAIN SanitizedLogs :
         SanitizedLogs[i].notes # Undef =>
           LET raw == parsed.logs.e[i].notes.v
               notes == SanitizedLogs[i].notes.v
           IN /\ notes = Slice(sanitizeString(raw), 1000)
              /\ Len(notes) <= 1000
              /\ (Len(raw) = 1000 /\ Settled(raw)) => notes = raw

\* A valid import of a name of 100 characters ending in '<': the sanitized
\* string has 103 characters and the name keeps the first 100.
C17_Witness ==
  /\ ValidImport
  /\ \E i \in DOMAIN SanitizedActivities :
       LET raw == Parsed.activities.e[i].name.v
       IN /\ Len(raw) = 100
          /\ raw[100] = "<"
          /\ Len(sanitizeString(raw)) = 103
          /\ Len(SanitizedActivities[i].name.v) = 100
          /\ SanitizedActivities[i].name.v[100] = "&"

\* The store has been written as CSV.
WroteCSV == pipPc = "exported" /\ pipOut.kind = "csv" /\ ~pipOut.threw

\* v with every double quote doubled, over the positions lo..hi.
RECURSIVE DoubledQuotes(_, _, _)
DoubledQuotes(v, lo, hi) ==
  IF lo > hi THEN <<>>
  ELSE IF lo = hi THEN (IF v[lo] = "\"" THEN <<"\"", "\"">> ELSE <<v[lo]>>)
  ELSE LET mid == (lo + hi) \div 2
       IN DoubledQuotes(v, lo, mid) \o DoubledQuotes(v, mid + 1, hi)

\* The CSV field of a string: as it is, or quoted with its quotes doubled.
CsvField(v) ==
  IF \A i \in DOMAIN v : v[i] \notin {",", "\"", "\n"} THEN v
  ELSE <<"\"">> \o DoubledQuotes(v, 1, Len(v)) \o <<"\"">>

\* The string a CSV field stands for: a quoted field loses its outer
\* quotes and the second quote of every pair.
RECURSIVE HalvedQuotes(_, _, _, _)
HalvedQuotes(e, qs, lo, hi) ==
  IF lo > hi THEN <<>>
  ELSE IF lo = hi
  THEN (IF lo \in qs /\
           (CHOOSE n \in 0..Cardinality(qs) :
              (\A k \in 1..n : (lo - k) \in qs) /\ (lo - n - 1) \notin qs) % 2 = 1
        THEN <<>> ELSE <<e[lo]>>)
  ELSE LET mid == (lo + hi) \div 2
       IN HalvedQuotes(e, qs, lo, mid) \o HalvedQuotes(e, qs, mid + 1, hi)

CsvValue(e) ==
  IF e # <<>> /\ Head(e) = "\""
  THEN LET inner == SubSeq(e, 2, Len(e) - 1)
       IN HalvedQuotes(inner, {i \in DOMAIN inner : inner[i] = "\""}, 1, Len(inner))
  ELSE e

RECURSIVE CsvJoin(_, _)
CsvJoin(parts, sep) ==
  IF parts = <<>> THEN <<>>
  ELSE IF Len(parts) = 1 THEN Head(parts)
  ELSE Head(parts) \o sep \o CsvJoin(Tail(parts), sep)

CsvActivityRow(a) ==
  CsvJoin(<<CsvField(a.id.v), CsvField(a.name.v), CsvField(a.color.v),
            CsvField(a.createdAt.v), CsvField(a.updatedAt.v)>>, <<",">>)

CsvLogRow(l) ==
  CsvJoin(<<CsvField(l.id.v), CsvField(l.activityId.v), CsvField(l.date.v),
            (IF l.completed = True THEN <<"t", "r", "u", "e">> ELSE <<"f", "a", "l", "s", "e">>),
            (IF l.notes = Undef THEN <<>> ELSE CsvField(l.notes.v)),
            CsvField(l.createdAt.v)>>, <<",">>)

\* The string fields of the store.
StoreFields ==
  UNION { {a.id.v, a.name.v, a.color.v, a.createdAt.v, a.updatedAt.v} :
            a \in Range(pipStore.activities) }
  \cup UNION { {l.id.v, l.activityId.v, l.date.v, l.createdAt.v} \cup
               (IF IsString(l.notes) THEN {l.notes.v} ELSE {}) :
                 l \in Range(pipStore.logs) }

\* C18: exportToCSV writes every string field unchanged when it holds no
\* comma, double quote or newline, and otherwise between double quotes
\* with every inner double quote doubled; completed is written as true or
\* false and absent notes as an empty field; every field written stands
\* for one value only.
C18_CsvEscaping ==
  WroteCSV =>
    /\ pipOut.csv =
         CsvJoin(<<<<"#", " ", "A", "c", "t", "i", "v", "i", "t", "i", "e", "s">>, <<"i", "d", ",", "n", "a", "m", "e", ",", "c", "o", "l", "o", "r", ",", "c", "r", "e", "a", "t", "e", "d", "A", "t", ",", "u", "p", "d", "a", "t", "e", "d", "A", "t">>>>
                 \o [i \in DOMAIN pipStore.activities |->
                       CsvActivityRow(pipStore.activities[i])]
                 \o <<<<>>, <<"#", " ", "L", "o", "g", "s">>, <<"i", "d", ",", "a", "c", "t", "i", "v", "i", "t", "y", "I", "d", ",", "d", "a", "t", "e", ",", "c", "o", "m", "p", "l", "e", "t", "e", "d", ",", "n", "o", "t", "e", "s", ",", "c", "r", "e", "a", "t", "e", "d", "A", "t">>>>
                 \o [i \in DOMAIN pipStore.logs |-> CsvLogRow(pipStore.logs[i])],
                 <<"\n">>)
    /\ \A v \in StoreFields : CsvValue(CsvField(v)) = v

\* A store with notes that hold a comma and a double quote, written as CSV.
C18_Witness ==
  /\ WroteCSV
  /\ \E l \in Range(pipStore.logs) :
       /\ IsString(l.notes)
       /\ Includes(l.notes.v, <<",">>)
       /\ Includes(l.notes.v, <<"\"">>)
       /\ Includes(pipOut.csv, <<"\"">> \o DoubledQuotes(l.notes.v, 1, Len(l.notes.v)) \o <<"\"">>)

\* C19: validateImportData(d) is validateImportDataWithErrors(d).valid;
\* parseImportFile(t) is null exactly when parseImportFileWithValidation(t)
\* is not valid and is otherwise its sanitizedData, names and notes
\* sanitized.
C19_LegacyWrappers ==
  pipPc = "legacy" =>
    /\ pipLegacy.kind = "validate" =>
         pipLegacy.ok = validateImportDataWithErrors(JSONparse(pipContent).value).valid
    /\ pipLegacy.kind = "parse" =>
         LET detailed == parseImportFileWithValidation(pipContent)
         IN /\ ~pipLegacy.threw
            /\ pipLegacy.isNull <=> ~detailed.value.valid
            /\ ~pipLegacy.isNull =>
                 /\ pipLegacy.data = detailed.value.sanitizedData
                 /\ \A a \in Range(pipLegacy.data.activities) : NoAngle(a.name.v)
                 /\ \A l \in Range(pipLegacy.data.logs) :
                      IsString(l.notes) => NoAngle(l.notes.v)

\* parseImportFile on a file with a tag in a name: the name comes back
\* without it.
C19_Witness ==
  /\ pipPc = "legacy"
  /\ pipLegacy.kind = "parse"
  /\ ~pipLegacy.isNull
  /\ \E i \in DOMAIN pipLegacy.data.activities :
       /\ containsHTML(JSONparse(pipContent).value.activities.e[i].name.v)
       /\ ~containsHTML(pipLegacy.data.activities[i].name.v)

\* C22: a valid import's sanitizedData has as many activities and logs as
\* the parsed input, in the same order, and each record's id, activityId,
\* date, color, completed, createdAt and updatedAt are the input's values;
\* only name and notes can differ.
C22_SanitizationFrame ==
  LET parsed == Parsed IN
  ValidImport =>
    /\ Len(SanitizedActivities) = Len(parsed.activities.e)
    /\ Len(SanitizedLogs) = Len(parsed.logs.e)
    /\ \A i \in DOMAIN SanitizedActivities :
         LET raw == parsed.activities.e[i]
             out == SanitizedActivities[i]
         IN /\ out.id = raw.id
            /\ out.color = raw.color
            /\ out.createdAt = raw.createdAt
            /\ out.updatedAt = raw.updatedAt
            /\ out = [raw EXCEPT !.name = out.name]
    /\ \A i \in DOMAIN SanitizedLogs :
         LET raw == parsed.logs.e[i]
             out == SanitizedLogs[i]
         IN /\ out.id = raw.id
            /\ out.activityId = raw.activityId
            /\ out.date = raw.date
            /\ out.completed = raw.completed
            /\ out.createdAt = raw.createdAt
            /\ out = [raw EXCEPT !.notes = out.notes]

\* A valid import of ids of the maximum length whose name and notes the
\* sanitizer changes.
C22_Witness ==
  /\ ValidImport
  /\ pipPc = "parsed"
  /\ \E i \in DOMAIN SanitizedActivities :
       /\ Len(SanitizedActivities[i].id.v) = MAX_ID_LENGTH
       /\ SanitizedActivities[i].id = Parsed.activities.e[i].id
       /\ SanitizedActivities[i].name # Parsed.activities.e[i].name
  /\ \E i \in DOMAIN SanitizedLogs :
       /\ Len(SanitizedLogs[i].activityId.v) = MAX_ID_LENGTH
       /\ SanitizedLogs[i].notes # Parsed.logs.e[i].notes

\* The parsed value with every undeclared property taken away.
WithoutExtras(data) ==
  [data EXCEPT
     !.activities = [@ EXCEPT !.e = [i \in DOMAIN @ |-> [@[i] EXCEPT !.extra = Undef]]],
     !.logs = [@ EXCEPT !.e = [i \in DOMAIN @ |-> [@[i] EXCEPT !.extra = Undef]]]]

\* C30: a property of an activity or a log other than the declared fields
\* is not validated (the errors are those of the value without it, none
\* names it) and not sanitized: it is in the sanitizedData record as it is
\* in the input, raw markup included.
C30_UndeclaredPassThrough ==
  LET parsed == Parsed IN
  ImportedJSON =>
    /\ pipRes.value.errors = validateImportDataWithErrors(WithoutExtras(parsed)).errors
    /\ pipRes.value.valid =>
         /\ \A i \in DOMAIN SanitizedActivities :
              SanitizedActivities[i].extra = parsed.activities.e[i].extra
         /\ \A i \in DOMAIN SanitizedLogs :
              SanitizedLogs[i].extra = parsed.logs.e[i].extra

\* A valid import whose sanitizedData holds a tag in an undeclared property
\* of a log.
C30_Witness ==
  /\ ValidImport
  /\ pipPc = "parsed"
  /\ \E i \in DOMAIN SanitizedLogs :
       /\ IsString(SanitizedLogs[i].extra)
       /\ containsHTML(SanitizedLogs[i].extra.v)
       /\ SanitizedLogs[i].extra = Parsed.logs.e[i].extra

(***************************************************************************)
(* File-name harness: generateExportFilename is called at an instant, on a *)
(* device whose local time is UTC plus an offset in hours.                 *)
(***************************************************************************)
\* new Date().toISOString().split('T')[0]: the date of the instant in UTC.
toISODate(now) ==
  FourDigits(now.year) \o <<"-">> \o TwoDigits(now.month) \o <<"-">> \o TwoDigits(now.day)

generateExportFilename(format, now) ==
  <<"a", "c", "t", "i", "v", "i", "t", "y", "-", "t", "r", "a", "c", "k", "e", "r", "-", "b", "a", "c", "k", "u", "p", "-">> \o toISODate(now) \o <<".">> \o format

\* Instants, as the UTC calendar date and hour.
Instants ==
  { [year |-> d[1], month |-> d[2], day |-> d[3], hour |-> h] :
      d \in {<<2024, 6, 15>>, <<2024, 2, 29>>, <<2024, 3, 1>>,
             <<2024, 12, 31>>, <<2025, 1, 1>>},
      h \in 0..23 }

\* Offsets of local time from UTC, in hours.
Offsets == -12..14

Formats == {<<"j", "s", "o", "n">>, <<"c", "s", "v">>}

InitFilename ==
  /\ fnPc = "call"
  /\ fnNow \in Instants
  /\ fnOffset \in Offsets
  /\ fnFormat \in Formats
  /\ fnOut = <<>>
  /\ SanIdle /\ MrgIdle /\ ValIdle /\ PipIdle /\ FldIdle /\ AppIdle

GenerateExportFilename ==
  /\ fnPc = "call"
  /\ fnOut' = generateExportFilename(fnFormat, fnNow)
  /\ fnPc' = "done"
  /\ UNCHANGED <<fnNow, fnOffset, fnFormat, sanVars, mrgVars, valVars, pipVars, fldVars, appVars>>

NextFilename == GenerateExportFilename

SpecFilename == InitFilename /\ [][NextFilename]_vars

\* The calendar date on the device at an instant: the UTC date, the day
\* before when the local hour falls before midnight, the day after when it
\* falls past it.
LocalDate(now, offset) ==
  LET hour == now.hour + offset
      shift == IF hour < 0 THEN -1 ELSE IF hour >= 24 THEN 1 ELSE 0
      days == GregorianDays(now.year, now.month)
  IN IF now.day + shift < 1
     THEN (IF now.month = 1
           THEN [year |-> now.year - 1, month |-> 12, day |-> 31]
           ELSE [year |-> now.year, month |-> now.month - 1,
                 day |-> GregorianDays(now.year, now.month - 1)])
     ELSE IF now.day + shift > days
     THEN (IF now.month = 12
           THEN [year |-> now.year + 1, month |-> 1, day |-> 1]
           ELSE [year |-> now.year, month |-> now.month + 1, day |-> 1])
     ELSE [year |-> now.year, month |-> now.month, day |-> now.day + shift]

\* C20: generateExportFilename(format) returns
\* 'activity-tracker-backup-<YYYY-MM-DD>.<format>' with the local calendar
\* date of the device at the call, at every hour and every offset from UTC.
C20_LocalDateFilename ==
  fnPc = "done" =>
    LET local == LocalDate(fnNow, fnOffset)
    IN fnOut = <<"a", "c", "t", "i", "v", "i", "t", "y", "-", "t", "r", "a", "c", "k", "e", "r", "-", "b", "a", "c", "k", "u", "p", "-">>
               \o FourDigits(local.year) \o <<"-">> \o TwoDigits(local.month)
               \o <<"-">> \o TwoDigits(local.day) \o <<".">> \o fnFormat

(***************************************************************************)
(* Deferred storage: the adapter createDeferredStorage returns, used by the *)
(* store for its one key.  dsCallbacks holds the handles of the callbacks   *)
(* the browser has been asked to run and that have not run nor been         *)
(* cancelled.  A stored string carries the number of the setItem call that  *)
(* passed it; dsCalls lists the calls of setItem and removeItem, dsWrites   *)
(* the strings localStorage.setItem has stored.                             *)
(***************************************************************************)
Payloads == {"x", "y"}

\* The string passed by call number n of the adapter.
Item(payload, n) == [t |-> "str", v |-> <<payload>>, call |-> n]

InitStorage ==
  /\ dsUseIdle \in BOOLEAN
  /\ dsPending = NoItem
  /\ dsScheduled = 0
  /\ dsLocal \in {NoItem} \cup { Item(p, 0) : p \in Payloads }
  /\ dsCallbacks = {}
  /\ dsNext = 1
  /\ dsCalls = <<>>
  /\ dsWrites = <<>>
  /\ dsGot = NotRead
  /\ LibIdle /\ TstIdle /\ StoIdle /\ ModIdle

\* The callbacks left after cancelScheduledWrite().
cancelScheduledWrite == IF dsScheduled # 0 THEN dsCallbacks \ {dsScheduled} ELSE dsCallbacks

\* getItem(name)
getItem == IF dsPending # NoItem THEN dsPending ELSE dsLocal

GetItem ==
  /\ dsGot' = getItem
  /\ UNCHANGED <<dsUseIdle, dsPending, dsScheduled, dsLocal, dsCallbacks, dsNext,
                 dsCalls, dsWrites>>
  /\ UNCHANGED <<libVars, tstVars, stoVars, modVars>>

\* setItem(name, value): requestIdleCallback and setTimeout both return a
\* new handle.
SetItem ==
  /\ Len(dsCalls) < MaxCalls
  /\ \E p \in Payloads :
       LET value == Item(p, Len(dsCalls) + 1)
       IN /\ dsPending' = value
          /\ dsCalls' = Append(dsCalls, [op |-> "setItem", value |-> value])
  /\ dsCallbacks' = cancelScheduledWrite \cup {dsNext}
  /\ dsScheduled' = dsNext
  /\ dsNext' = dsNext + 1
  /\ dsGot' = NotRead
  /\ UNCHANGED <<dsUseIdle, dsLocal, dsWrites>>
  /\ UNCHANGED <<libVars, tstVars, stoVars, modVars>>

\* removeItem(name)
RemoveItem ==
  /\ Len(dsCalls) < MaxCalls
  /\ dsPending' = NoItem
  /\ dsCallbacks' = cancelScheduledWrite
  /\ dsScheduled' = 0
  /\ dsLocal' = NoItem
  /\ dsCalls' = Append(dsCalls, [op |-> "removeItem", value |-> NoItem])
  /\ dsGot' = NotRead
  /\ UNCHANGED <<dsUseIdle, dsNext, dsWrites>>
  /\ UNCHANGED <<libVars, tstVars, stoVars, modVars>>

\* The browser runs a scheduled callback, flushWrite(name):
\* localStorage.setItem stores the string or throws.
FlushWrite ==
  /\ \E h \in dsCallbacks :
       /\ dsCallbacks' = dsCallbacks \ {h}
       /\ IF dsPending # NoItem
          THEN /\ \/ dsLocal' = dsPending /\ dsWrites' = Append(dsWrites, dsPending)
                  \/ UNCHANGED <<dsLocal, dsWrites>>
               /\ dsPending' = NoItem
          ELSE UNCHANGED <<dsPending, dsLocal, dsWrites>>
  /\ dsScheduled' = 0
  /\ dsGot' = NotRead
  /\ UNCHANGED <<dsUseIdle, dsNext, dsCalls>>
  /\ UNCHANGED <<libVars, tstVars, stoVars, modVars>>

NextStorage == GetItem \/ SetItem \/ RemoveItem \/ FlushWrite

SpecStorage == InitStorage /\ [][NextStorage]_vars

\* The browser runs every callback it was asked to run and that is not
\* cancelled.
SpecStorageFair == SpecStorage /\ WF_vars(FlushWrite)

\* The last call of setItem or removeItem was setItem.
LastIsSetItem == dsCalls # <<>> /\ dsCalls[Len(dsCalls)].op = "setItem"

LastValue == dsCalls[Len(dsCalls)].value

\* Two items are the same value to the program (null, or the same string).
SameItem(a, b) == a.t = b.t /\ a.v = b.v

\* C28: at every moment after setItem(name, v) and before the next setItem
\* or removeItem, getItem(name) returns v: before the deferred write has
\* run, after it has run, and after it has run and localStorage.setItem
\* threw.
C28_ReadYourWrites ==
  (dsGot # NotRead /\ LastIsSetItem) => SameItem(dsGot, LastValue)

\* At most one callback is scheduled, and it is the one scheduledWrite names.
OneScheduled ==
  /\ Cardinality(dsCallbacks) <= 1
  /\ dsCallbacks = IF dsScheduled # 0 THEN {dsScheduled} ELSE {}

\* No string is stored after one passed by a later call.
WritesInOrder ==
  \A i, j \in DOMAIN dsWrites : i < j => dsWrites[i].call < dsWrites[j].call

\* After removeItem nothing is pending or scheduled and the key stays
\* removed.
RemovedStaysRemoved ==
  (dsCalls # <<>> /\ dsCalls[Len(dsCalls)].op = "removeItem") =>
    dsPending = NoItem /\ dsScheduled = 0 /\ dsCallbacks = {} /\ dsLocal = NoItem

\* C29: at most one deferred write is scheduled at any time; when every
\* scheduled callback eventually runs, localStorage eventually holds the
\* string of the last setItem, and no earlier string is stored after a
\* later one; after removeItem nothing is pending or scheduled and no
\* callback stores the key again.
C29_LastWriteWins ==
  /\ [](OneScheduled /\ WritesInOrder /\ RemovedStaysRemoved)
  /\ LastIsSetItem ~> (~LastIsSetItem \/ SameItem(dsLocal, LastValue))

\* The parts of C29 that are about scheduling.
C29_Scheduling == OneScheduled /\ WritesInOrder /\ RemovedStaysRemoved

\* The last string is stored once the callback has run without
\* localStorage.setItem throwing.
C29_StoredUnlessThrown ==
  (LastIsSetItem /\ dsCallbacks = {} /\ dsWrites # <<>>
     /\ dsWrites[Len(dsWrites)].call = Len(dsCalls))
  => SameItem(dsLocal, LastValue)

\* C26: merging the imported arrays into the result of merging them into
\* the existing arrays gives the activities and logs of the first merge.
C26_ReimportIdempotent ==
  mrgPc = "again" => mrgRet2 = mrgRet

\* The first merge added an activity and a log and skipped an imported
\* activity.
C26_Witness ==
  /\ mrgPc = "again"
  /\ Len(mrgRet.activities) > Len(mrgArgs.ea)
  /\ Len(mrgRet.logs) > Len(mrgArgs.el)
  /\ Len(mrgRet.activities) < Len(mrgArgs.ea) + Len(mrgArgs.ia)
  /\ mrgRet2 = mrgRet

(***************************************************************************)
(* Toast store.  Time is counted in seconds; a timer set by setTimeout runs *)
(* when its delay has passed, before the clock moves on.  The random part   *)
(* of a toast's id (nine base-36 digits) is taken to differ between calls.  *)
(***************************************************************************)
DISMISS_AFTER == 3

Variants == {"success", "error", "info"}
Messages == {"saved"}

\* An id that no toast has: that of NoStep.
UnknownId == NoStep.id

\* The timer callback removing the oldest toast.
autoDismiss_Oldest(toasts, id) == IF toasts = <<>> THEN toasts ELSE Tail(toasts)

\* The callback of the timer addToast sets.
autoDismiss(toasts, id) == SelectSeq(toasts, LAMBDA t : t.id # id)

removeToast(toasts, id) == SelectSeq(toasts, LAMBDA t : t.id # id)

InitToast ==
  /\ tstToasts = <<>>
  /\ tstTimers = {}
  /\ tstNow = 0
  /\ tstNext = 1
  /\ tstAdded = <<>>
  /\ tstRemoved = {}
  /\ tstLast = NoStep
  /\ tstPrev = <<>>
  /\ LibIdle /\ DsIdle /\ StoIdle /\ ModIdle

\* addToast(message, variant)
AddToast ==
  /\ Len(tstAdded) < MaxToasts
  /\ \E message \in Messages, variant \in Variants :
       LET id == [at |-> tstNow, rnd |-> tstNext]
           newToast == [id |-> id, message |-> message, variant |-> variant]
       IN /\ tstToasts' = Append(tstToasts, newToast)
          /\ tstTimers' = tstTimers \cup {[id |-> id, due |-> tstNow + DISMISS_AFTER]}
          /\ tstAdded' = Append(tstAdded, newToast)
          /\ tstLast' = [op |-> "addToast", id |-> id]
  /\ tstNext' = tstNext + 1
  /\ tstPrev' = tstToasts
  /\ UNCHANGED <<tstNow, tstRemoved>>
  /\ UNCHANGED <<libVars, dsVars, stoVars, modVars>>

\* removeToast(id), of a toast that was added or of no toast.
RemoveToast ==
  /\ \E id \in { t.id : t \in Range(tstAdded) } \cup {UnknownId} :
       /\ tstToasts' = removeToast(tstToasts, id)
       /\ tstRemoved' = tstRemoved \cup {id}
       /\ tstLast' = [op |-> "removeToast", id |-> id]
  /\ tstPrev' = tstToasts
  /\ UNCHANGED <<tstTimers, tstNow, tstNext, tstAdded>>
  /\ UNCHANGED <<libVars, dsVars, stoVars, modVars>>

\* A timer's delay has passed: its callback runs.
AutoDismiss ==
  /\ \E timer \in tstTimers :
       /\ timer.due <= tstNow
       /\ tstToasts' = autoDismiss(tstToasts, timer.id)
       /\ tstTimers' = tstTimers \ {timer}
       /\ tstLast' = [op |-> "timer", id |-> timer.id]
  /\ tstPrev' = tstToasts
  /\ UNCHANGED <<tstNow, tstNext, tstAdded, tstRemoved>>
  /\ UNCHANGED <<libVars, dsVars, stoVars, modVars>>

\* A second passes.
Tick ==
  /\ tstNow < MaxTime
  /\ \A timer \in tstTimers : timer.due > tstNow
  /\ tstNow' = tstNow + 1
  /\ tstLast' = [op |-> "tick", id |-> UnknownId]
  /\ tstPrev' = tstToasts
  /\ UNCHANGED <<tstToasts, tstTimers, tstNext, tstAdded, tstRemoved>>
  /\ UNCHANGED <<libVars, dsVars, stoVars, modVars>>

NextToast == AddToast \/ RemoveToast \/ AutoDismiss \/ Tick

SpecToast == InitToast /\ [][NextToast]_vars

Present(id) == \E i \in DOMAIN tstToasts : tstToasts[i].id = id

\* C25: a toast that removeToast has not removed is in the list until 3
\* seconds after addToast added it and not from then on, and a removed one
\* stays out; the list holds the toasts in the order of their addition; a
\* timer's callback takes out its own toast and no other, so the list is
\* left as it is by a timer whose toast was removed by hand and by
\* removeToast of an id no toast has.
C25_ToastAutoDismiss ==
  /\ \A t \in Range(tstAdded) :
       /\ (t.id \notin tstRemoved /\ tstNow < t.id.at + DISMISS_AFTER) => Present(t.id)
       /\ tstNow > t.id.at + DISMISS_AFTER => ~Present(t.id)
       /\ (\A timer \in tstTimers : timer.id # t.id) => ~Present(t.id)
       /\ t.id \in tstRemoved => ~Present(t.id)
  /\ tstToasts = SelectSeq(tstAdded, LAMBDA t : Present(t.id))
  /\ tstLast.op = "timer" =>
       /\ tstToasts = SelectSeq(tstPrev, LAMBDA t : t.id # tstLast.id)
       /\ tstLast.id \in tstRemoved => tstToasts = tstPrev
       /\ tstNow = tstLast.id.at + DISMISS_AFTER
  /\ (tstLast.op = "removeToast" /\ tstLast.id = UnknownId) => tstToasts = tstPrev

\* The timer of a toast that was removed by hand runs while another toast
\* is in the list.
C25_Witness ==
  /\ tstLast.op = "timer"
  /\ tstLast.id \in tstRemoved
  /\ tstToasts # <<>>
  /\ tstToasts = tstPrev

(***************************************************************************)
(* Calendar store.  An activity and a log are objects as in the documents  *)
(* above.  generateId() joins the clock with nine random base-36 digits;   *)
(* its results are taken to differ from each other and from imported ids.  *)
(***************************************************************************)
MAX_FILE_SIZE == 10 * 1024 * 1024

OtherDay == <<"2", "0", "2", "4", "-", "0", "1", "-", "1", "6">>
StoreDates == {Stamp, OtherDay}
Years == {2025}
Months == {1}
ViewTypes == {"year", "month"}
ImportModes == {"merge", "replace"}

\* The n-th result of generateId().
generateId(n) == Str(<<"g", DigitChars[n + 1]>>)

\* An id that no activity and no log has.
AbsentId == Str(<<"n", "o">>)

\* A key that an updates object does not have.
Absent == [t |-> "absent", v |-> <<>>]

\* The updates of updateActivity: a name, a color, or neither.
Updates ==
  { [name |-> Str(<<"c">>), color |-> Absent],
    [name |-> Absent, color |-> Str(<<"#", "0", "0", "0">>)],
    [name |-> Absent, color |-> Absent] }

Not(x) == IF Falsy(x) THEN True ELSE False

addActivity(activities, id, name, color, now) ==
  Append(activities,
         [t |-> "obj", v |-> <<>>, id |-> id, name |-> name, color |-> color,
          createdAt |-> Str(now), updatedAt |-> Str(now), extra |-> Undef])

updateActivity(activities, id, updates, now) ==
  [i \in DOMAIN activities |->
     IF activities[i].id = id
     THEN [activities[i] EXCEPT
             !.name = IF updates.name = Absent THEN @ ELSE updates.name,
             !.color = IF updates.color = Absent THEN @ ELSE updates.color,
             !.updatedAt = Str(now)]
     ELSE activities[i]]

\* deleteActivity leaving the logs as they are.
deleteActivity_KeepLogs(activities, logs, id) ==
  [activities |-> SelectSeq(activities, LAMBDA a : a.id # id),
   logs |-> logs]

deleteActivity(activities, logs, id) ==
  [activities |-> SelectSeq(activities, LAMBDA a : a.id # id),
   logs |-> SelectSeq(logs, LAMBDA l : l.activityId # id)]

\* logs.find: the index of the first log of the activity on the date, 0 when
\* there is none.
FindLog(logs, activityId, date) ==
  IF \E i \in DOMAIN logs : logs[i].activityId = activityId /\ logs[i].date = date
  THEN CHOOSE i \in DOMAIN logs :
         /\ logs[i].activityId = activityId /\ logs[i].date = date
         /\ \A j \in 1..(i - 1) :
              ~(logs[j].activityId = activityId /\ logs[j].date = date)
  ELSE 0

toggleLog(logs, activityId, date, newId, now) ==
  LET found == FindLog(logs, activityId, date)
  IN IF found # 0
     THEN [i \in DOMAIN logs |->
             IF logs[i].id = logs[found].id
             THEN [logs[i] EXCEPT !.completed = Not(@)]
             ELSE logs[i]]
     ELSE Append(logs,
                 [t |-> "obj", v |-> <<>>, id |-> newId, activityId |-> activityId,
                  date |-> date, completed |-> True, notes |-> Undef,
                  createdAt |-> Str(now), extra |-> Undef])

updateLogNotes(logs, logId, notes) ==
  [i \in DOMAIN logs |->
     IF logs[i].id = logId THEN [logs[i] EXCEPT !.notes = notes] ELSE logs[i]]

getLogsForDate(logs, date) ==
  SelectSeq(logs, LAMBDA l : l.date = date /\ ~Falsy(l.completed))

\* The store's arrays after handleConfirmImport with parsedData.
handleConfirmImport(activities, logs, parsedData, importMode) ==
  IF importMode = "replace"
  THEN [activities |-> parsedData.activities, logs |-> parsedData.logs]
  ELSE mergeData(activities, logs, parsedData.activities, parsedData.logs)

endsWith(s, suffix) ==
  /\ Len(s) >= Len(suffix)
  /\ SubSeq(s, Len(s) - Len(suffix) + 1, Len(s)) = suffix

DotJson == <<".", "j", "s", "o", "n">>

File(name, size, content) == [name |-> name, size |-> size, content |-> content]

\* An export with two logs of activity a1 on one day, the first not
\* completed, and one whose activity name the sanitizer changes.
TwinLogsDoc ==
  Doc(Arr(<<Act(<<"a", "1">>, <<"b">>, Undef)>>),
      Arr(<<Log(<<"l", "2">>, False, Undef), Log(<<"l", "1">>, True, Str(<<"b">>))>>))

TagNameDoc ==
  Doc(Arr(<<Act(<<"a", "2">>, <<"<", "b", ">", "b">>, Str(Stamp))>>), Arr(<<>>))

WrongDoc == Doc(Arr(<<ActAllWrong>>), Arr(<<>>))

\* The files a user selects: two that pass every check, one with another
\* extension, one over the size limit, one that fails validation and one
\* that is not JSON.
Files ==
  { File(<<"d">> \o DotJson, 1, JSONstringify(TwinLogsDoc)),
    File(<<"e">> \o DotJson, MAX_FILE_SIZE, JSONstringify(TagNameDoc)),
    File(<<"d", ".", "t", "x", "t">>, 1, JSONstringify(TwinLogsDoc)),
    File(<<"d">> \o DotJson, MAX_FILE_SIZE + 1, JSONstringify(TagNameDoc)),
    File(<<"w">> \o DotJson, 1, JSONstringify(WrongDoc)),
    File(<<"m">> \o DotJson, 1, [closed |-> FALSE, doc |-> WrongDoc]) }

\* The file passes the name check and the size check of processFile.
Readable(file) == endsWith(file.name, DotJson) /\ ~(file.size > MAX_FILE_SIZE)

\* parseImportFileWithValidation ended with valid data.
ValidOutcome(outcome) ==
  ~outcome.threw /\ outcome.value.valid /\ outcome.value.sanitizedData.present

\* The file passes the name, size and validation checks.
Accepted(file) ==
  Readable(file) /\ ValidOutcome(parseImportFileWithValidation(file.content))

\* The files that pass the name, size and validation checks, and the
\* sanitizedData of each.
AcceptedFiles == { file \in Files : Accepted(file) }

SanitizedData ==
  [file \in AcceptedFiles |->
     parseImportFileWithValidation(file.content).value.sanitizedData]

\* parsedData after the read of a file that passes every check.
Importable == { SanitizedData[file] : file \in AcceptedFiles }

InitStore == StoIdle /\ ModIdle /\ LibIdle /\ DsIdle /\ TstIdle

\* The bookkeeping of a call of a store action.
Called(op, id, date) ==
  /\ stoOps < MaxOps
  /\ stoOps' = stoOps + 1
  /\ stoLast' = [op |-> op, id |-> id, date |-> date]
  /\ stoPrev' = StoreOf(stoActivities, stoLogs, stoNav)
  /\ stoLast2' = stoLast
  /\ stoPrev2' = stoPrev

ActivityIds == { a.id : a \in Range(stoActivities) }
LogIds == { l.id : l \in Range(stoLogs) }

AddActivity ==
  /\ Called("addActivity", generateId(stoNext), Undef)
  /\ stoActivities' =
       addActivity(stoActivities, generateId(stoNext), Str(<<"r", "u", "n">>),
                   Str(White), Stamp)
  /\ stoNext' = stoNext + 1
  /\ UNCHANGED <<stoLogs, stoNav, stoImported, stoOrphan>>
  /\ UNCHANGED <<libVars, dsVars, tstVars, modVars>>

UpdateActivity ==
  /\ \E id \in ActivityIds \cup {AbsentId}, updates \in Updates :
       /\ Called("updateActivity", id, Undef)
       /\ stoActivities' = updateActivity(stoActivities, id, updates, OtherDay)
  /\ UNCHANGED <<stoLogs, stoNav, stoNext, stoImported, stoOrphan>>
  /\ UNCHANGED <<libVars, dsVars, tstVars, modVars>>

DeleteActivity ==
  /\ \E id \in ActivityIds \cup {AbsentId} :
       /\ Called("deleteActivity", id, Undef)
       /\ stoActivities' = deleteActivity(stoActivities, stoLogs, id).activities
       /\ stoLogs' = deleteActivity(stoActivities, stoLogs, id).logs
  /\ UNCHANGED <<stoNav, stoNext, stoImported, stoOrphan>>
  /\ UNCHANGED <<libVars, dsVars, tstVars, modVars>>

ToggleLog ==
  /\ \E activityId \in ActivityIds \cup {AbsentId}, date \in StoreDates :
       /\ Called("toggleLog", activityId, Str(date))
       /\ stoLogs' = toggleLog(stoLogs, activityId, Str(date), generateId(stoNext), Stamp)
       /\ stoOrphan' = (stoOrphan \/ activityId \notin ActivityIds)
  /\ stoNext' = IF Len(stoLogs') > Len(stoLogs) THEN stoNext + 1 ELSE stoNext
  /\ UNCHANGED <<stoActivities, stoNav, stoImported>>
  /\ UNCHANGED <<libVars, dsVars, tstVars, modVars>>

UpdateLogNotes ==
  /\ \E logId \in LogIds \cup {AbsentId} :
       /\ Called("updateLogNotes", logId, Undef)
       /\ stoLogs' = updateLogNotes(stoLogs, logId, Str(<<"n">>))
  /\ UNCHANGED <<stoActivities, stoNav, stoNext, stoImported, stoOrphan>>
  /\ UNCHANGED <<libVars, dsVars, tstVars, modVars>>

SetSelectedYear ==
  /\ Called("setSelectedYear", Undef, Undef)
  /\ \E year \in Years : stoNav' = [stoNav EXCEPT !.selectedYear = year]
  /\ UNCHANGED <<stoActivities, stoLogs, stoNext, stoImported, stoOrphan>>
  /\ UNCHANGED <<libVars, dsVars, tstVars, modVars>>

SetSelectedDate ==
  /\ Called("setSelectedDate", Undef, Undef)
  /\ \E date \in {Null, Str(Stamp)} : stoNav' = [stoNav EXCEPT !.selectedDate = date]
  /\ UNCHANGED <<stoActivities, stoLogs, stoNext, stoImported, stoOrphan>>
  /\ UNCHANGED <<libVars, dsVars, tstVars, modVars>>

SetCurrentView ==
  /\ Called("setCurrentView", Undef, Undef)
  /\ \E view \in ViewTypes : stoNav' = [stoNav EXCEPT !.currentView = view]
  /\ UNCHANGED <<stoActivities, stoLogs, stoNext, stoImported, stoOrphan>>
  /\ UNCHANGED <<libVars, dsVars, tstVars, modVars>>

SetSelectedMonth ==
  /\ Called("setSelectedMonth", Undef, Undef)
  /\ \E month \in Months : stoNav' = [stoNav EXCEPT !.selectedMonth = month]
  /\ UNCHANGED <<stoActivities, stoLogs, stoNext, stoImported, stoOrphan>>
  /\ UNCHANGED <<libVars, dsVars, tstVars, modVars>>

NavigateToMonth ==
  /\ Called("navigateToMonth", Undef, Undef)
  /\ \E year \in Years, month \in Months :
       stoNav' = [stoNav EXCEPT !.selectedYear = year, !.selectedMonth = month,
                                !.currentView = "month"]
  /\ UNCHANGED <<stoActivities, stoLogs, stoNext, stoImported, stoOrphan>>
  /\ UNCHANGED <<libVars, dsVars, tstVars, modVars>>

\* A session of the import modal from the selection of a file that passes
\* every check to the confirmation: resetState leaves the modal as it was.
ConfirmedImport ==
  /\ Called("import", Undef, Undef)
  /\ \E parsedData \in Importable, importMode \in ImportModes :
       LET after == handleConfirmImport(stoActivities, stoLogs, parsedData, importMode)
       IN /\ stoActivities' = after.activities
          /\ stoLogs' = after.logs
  /\ stoImported' = TRUE
  /\ UNCHANGED <<stoNav, stoNext, stoOrphan>>
  /\ UNCHANGED <<libVars, dsVars, tstVars, modVars>>

NextStore ==
  \/ AddActivity \/ UpdateActivity \/ DeleteActivity \/ ToggleLog \/ UpdateLogNotes
  \/ SetSelectedYear \/ SetSelectedDate \/ SetCurrentView \/ SetSelectedMonth
  \/ NavigateToMonth \/ ConfirmedImport

SpecStore == InitStore /\ [][NextStore]_vars

\* Activity a counts as completed on date d, as getLogsForDate reports it.
CompletedOn(logs, a, d) ==
  \E l \in Range(getLogsForDate(logs, d)) : l.activityId = a

IsFor(l, a, d) == l.activityId = a /\ l.date = d

\* C23: toggleLog(a, d) changes whether a counts as completed on d; with no
\* log for (a, d) it appends one new log, completed, and otherwise it
\* negates completed on the log for (a, d); after two consecutive
\* toggleLog(a, d) the completion status is the one before them.
C23_ToggleFlipsCompletion ==
  stoLast.op = "toggleLog" =>
    LET a == stoLast.id
        d == stoLast.date
        before == stoPrev.logs
    IN /\ CompletedOn(stoLogs, a, d) # CompletedOn(before, a, d)
       /\ IF \A l \in Range(before) : ~IsFor(l, a, d)
          THEN /\ Len(stoLogs) = Len(before) + 1
               /\ SubSeq(stoLogs, 1, Len(before)) = before
               /\ IsFor(stoLogs[Len(stoLogs)], a, d)
               /\ stoLogs[Len(stoLogs)].completed = True
          ELSE \E i \in DOMAIN before :
                 /\ IsFor(before[i], a, d)
                 /\ stoLogs = [before EXCEPT ![i].completed = Not(@)]
       /\ (stoLast2 = stoLast) =>
            (CompletedOn(stoLogs, a, d) = CompletedOn(stoPrev2.logs, a, d))

\* The same of a store into which nothing was imported.
C23_WithoutImport == ~stoImported => C23_ToggleFlipsCompletion

\* C24: deleteActivity(id) removes the activities with that id and the logs
\* of that activity and leaves the other activities, the other logs and the
\* navigation state as they were; with no import and toggleLog called for
\* activities of the store only, every log is of an activity of the store.
C24_DeleteCascade ==
  /\ stoLast.op = "deleteActivity" =>
       /\ \A a \in Range(stoActivities) : a.id # stoLast.id
       /\ \A l \in Range(stoLogs) : l.activityId # stoLast.id
       /\ stoActivities = SelectSeq(stoPrev.activities, LAMBDA a : a.id # stoLast.id)
       /\ stoLogs = SelectSeq(stoPrev.logs, LAMBDA l : l.activityId # stoLast.id)
       /\ stoNav = stoPrev.nav
  /\ (~stoImported /\ ~stoOrphan) =>
       \A l \in Range(stoLogs) : l.activityId \in ActivityIds

\* deleteActivity removed an activity and its log and left another
\* activity, in a store without imports.
C24_Witness ==
  /\ stoLast.op = "deleteActivity"
  /\ ~stoImported /\ ~stoOrphan
  /\ Len(stoActivities) < Len(stoPrev.activities)
  /\ Len(stoLogs) < Len(stoPrev.logs)
  /\ stoActivities # <<>>

(***************************************************************************)
(* Import modal.  A read started by processFile completes or fails at any  *)
(* later moment; the confirmation dialog lies over the modal, so that      *)
(* while it is shown the modal's own controls take no event.               *)
(***************************************************************************)
\* What processFile sets before any read: error is the rejection's message,
\* reading says whether a FileReader was started.
processFile(file) ==
  IF ~endsWith(file.name, DotJson)
  THEN [error |-> Message("Please select a JSON file (.json)"), reading |-> FALSE]
  ELSE IF file.size > MAX_FILE_SIZE
  THEN [error |-> Message("File is too large. Maximum file size is 10MB."),
        reading |-> FALSE]
  ELSE [error |-> NoError, reading |-> TRUE]

\* What reader.onload sets after parseImportFileWithValidation ended with
\* outcome: set says which of the setters run (none when it threw).
onloadWith(outcome) ==
  IF outcome.threw
  THEN [set |-> "nothing", error |-> NoError, validationErrors |-> <<>>,
        parsedData |-> NoData]
  ELSE IF ~outcome.value.valid \/ ~outcome.value.sanitizedData.present
  THEN IF Len(outcome.value.errors) > 0
       THEN [set |-> "errors", error |-> Message(outcome.value.errors[1].message),
             validationErrors |-> outcome.value.errors, parsedData |-> NoData]
       ELSE [set |-> "error",
             error |-> Message("Invalid file format. Please ensure the file was exported from Activity Tracker."),
             validationErrors |-> <<>>, parsedData |-> NoData]
  ELSE [set |-> "parsedData", error |-> NoError, validationErrors |-> <<>>,
        parsedData |-> outcome.value.sanitizedData]

onload(content) == onloadWith(parseImportFileWithValidation(content))

\* onload of the files' contents, computed once.
Loaded == [file \in Files |-> onload(file.content)]

\* reader.onload setting parsedData whatever the result is.
onloadOf_Unchecked(file) ==
  [Loaded[file] EXCEPT
     !.set = "parsedData",
     !.parsedData = [present |-> TRUE,
                     activities |-> <<Act(<<"a", "9">>, <<"b">>, Undef)>>,
                     logs |-> <<>>]]

onloadOf(file) == Loaded[file]

InitModal == StoIdle /\ ModIdle /\ LibIdle /\ DsIdle /\ TstIdle

\* The bookkeeping of an event of the modal.
Event(op) ==
  /\ stoLast' = [op |-> op, id |-> Undef, date |-> Undef]
  /\ stoPrev' = StoreOf(stoActivities, stoLogs, stoNav)
  /\ modPrev' = [parsedData |-> modParsedData, importMode |-> modImportMode,
                 from |-> modFrom, selected |-> modSelected]
  /\ UNCHANGED <<stoNav, stoNext, stoOps, stoOrphan, stoLast2, stoPrev2>>
  /\ UNCHANGED <<libVars, dsVars, tstVars>>

\* processFile(file) as handleFileChange and handleDrop call it.
ProcessFile(file) ==
  /\ modCount < MaxSelects
  /\ modCount' = modCount + 1
  /\ modSelected' = file
  /\ modParsedData' = NoData
  /\ modFrom' = NoFile
  /\ modValidationErrors' = <<>>
  /\ modError' = processFile(file).error
  /\ modReads' = IF processFile(file).reading
                 THEN modReads \cup {[file |-> file, n |-> modCount + 1]}
                 ELSE modReads

\* onChange of the file input, with a file or with none.
HandleFileChange ==
  /\ ~modShowConfirm
  /\ Event("handleFileChange")
  /\ \E file \in Files \cup {NoFile} :
       IF file # NoFile
       THEN ProcessFile(file)
       ELSE UNCHANGED <<modCount, modSelected, modParsedData, modFrom,
                        modValidationErrors, modError, modReads>>
  /\ UNCHANGED <<modImportMode, modIsDragging, modShowConfirm, modIsImporting>>
  /\ UNCHANGED <<stoActivities, stoLogs, stoImported>>

HandleDragOver ==
  /\ ~modShowConfirm
  /\ Event("handleDragOver")
  /\ modIsDragging' = TRUE
  /\ UNCHANGED <<modImportMode, modParsedData, modError, modValidationErrors,
                 modShowConfirm, modIsImporting, modReads, modCount, modSelected,
                 modFrom>>
  /\ UNCHANGED <<stoActivities, stoLogs, stoImported>>

HandleDragLeave ==
  /\ ~modShowConfirm
  /\ Event("handleDragLeave")
  /\ modIsDragging' = FALSE
  /\ UNCHANGED <<modImportMode, modParsedData, modError, modValidationErrors,
                 modShowConfirm, modIsImporting, modReads, modCount, modSelected,
                 modFrom>>
  /\ UNCHANGED <<stoActivities, stoLogs, stoImported>>

\* A drop of a file, or of something that is no file.
HandleDrop ==
  /\ ~modShowConfirm
  /\ Event("handleDrop")
  /\ modIsDragging' = FALSE
  /\ \E file \in Files \cup {NoFile} :
       IF file # NoFile
       THEN ProcessFile(file)
       ELSE UNCHANGED <<modCount, modSelected, modParsedData, modFrom,
                        modValidationErrors, modError, modReads>>
  /\ UNCHANGED <<modImportMode, modShowConfirm, modIsImporting>>
  /\ UNCHANGED <<stoActivities, stoLogs, stoImported>>

\* The setters of reader.onload run.
Onload(file, sets) ==
  /\ modError' = IF sets.set \in {"errors", "error"} THEN sets.error ELSE modError
  /\ modValidationErrors' =
       IF sets.set = "errors" THEN sets.validationErrors ELSE modValidationErrors
  /\ modParsedData' = IF sets.set = "parsedData" THEN sets.parsedData ELSE modParsedData
  /\ modFrom' = IF sets.set = "parsedData" THEN file ELSE modFrom

\* reader.onload of a read in progress.
ReaderOnload ==
  /\ Event("onload")
  /\ \E read \in modReads :
       /\ modReads' = modReads \ {read}
       /\ Onload(read.file, onloadOf(read.file))
  /\ UNCHANGED <<modImportMode, modIsDragging, modShowConfirm, modIsImporting,
                 modCount, modSelected>>
  /\ UNCHANGED <<stoActivities, stoLogs, stoImported>>

\* reader.onerror of a read in progress.
ReaderOnerror ==
  /\ Event("onerror")
  /\ \E read \in modReads : modReads' = modReads \ {read}
  /\ modError' = Message("Failed to read file. Please try again.")
  /\ UNCHANGED <<modImportMode, modIsDragging, modParsedData, modValidationErrors,
                 modShowConfirm, modIsImporting, modCount, modSelected, modFrom>>
  /\ UNCHANGED <<stoActivities, stoLogs, stoImported>>

\* The radio buttons, which are shown with parsedData.
SetImportMode ==
  /\ ~modShowConfirm
  /\ modParsedData.present
  /\ Event("setImportMode")
  /\ \E mode \in ImportModes : modImportMode' = mode
  /\ UNCHANGED <<modIsDragging, modParsedData, modError, modValidationErrors,
                 modShowConfirm, modIsImporting, modReads, modCount, modSelected,
                 modFrom>>
  /\ UNCHANGED <<stoActivities, stoLogs, stoImported>>

\* The Import button, disabled without parsedData and while importing.
HandleImportClick ==
  /\ ~modShowConfirm
  /\ ~(~modParsedData.present \/ modIsImporting)
  /\ Event("handleImportClick")
  /\ modShowConfirm' = TRUE
  /\ UNCHANGED <<modImportMode, modIsDragging, modParsedData, modError,
                 modValidationErrors, modIsImporting, modReads, modCount,
                 modSelected, modFrom>>
  /\ UNCHANGED <<stoActivities, stoLogs, stoImported>>

\* resetState()
ResetState ==
  /\ modParsedData' = NoData
  /\ modError' = NoError
  /\ modValidationErrors' = <<>>
  /\ modImportMode' = "merge"
  /\ modShowConfirm' = FALSE
  /\ modIsImporting' = FALSE
  /\ modFrom' = NoFile
  /\ modSelected' = NoFile

\* onConfirm of the confirmation dialog.
HandleConfirmImport ==
  /\ modShowConfirm
  /\ Event("handleConfirmImport")
  /\ IF ~modParsedData.present
     THEN /\ UNCHANGED <<modImportMode, modParsedData, modError, modValidationErrors,
                         modShowConfirm, modIsImporting, modSelected, modFrom>>
          /\ UNCHANGED <<stoActivities, stoLogs, stoImported>>
     ELSE LET after == handleConfirmImport(stoActivities, stoLogs, modParsedData,
                                           modImportMode)
          IN /\ stoActivities' = after.activities
             /\ stoLogs' = after.logs
             /\ stoImported' = TRUE
             /\ ResetState
  /\ UNCHANGED <<modIsDragging, modReads, modCount>>

\* onClose of the confirmation dialog.
CancelConfirm ==
  /\ modShowConfirm
  /\ Event("cancelConfirm")
  /\ modShowConfirm' = FALSE
  /\ UNCHANGED <<modImportMode, modIsDragging, modParsedData, modError,
                 modValidationErrors, modIsImporting, modReads, modCount,
                 modSelected, modFrom>>
  /\ UNCHANGED <<stoActivities, stoLogs, stoImported>>

\* The Cancel button and the modal's own close.
HandleClose ==
  /\ ~modShowConfirm
  /\ Event("handleClose")
  /\ ResetState
  /\ UNCHANGED <<modIsDragging, modReads, modCount>>
  /\ UNCHANGED <<stoActivities, stoLogs, stoImported>>

NextModal ==
  \/ HandleFileChange \/ HandleDragOver \/ HandleDragLeave \/ HandleDrop
  \/ ReaderOnload \/ ReaderOnerror \/ SetImportMode \/ HandleImportClick
  \/ HandleConfirmImport \/ CancelConfirm \/ HandleClose

SpecModal == InitModal /\ [][NextModal]_vars

StoreChanged == stoActivities # stoPrev.activities \/ stoLogs # stoPrev.logs

\* C21: over the events of the import modal the store's activities and
\* logs change in the confirm step only, and only with parsedData the
\* sanitizedData of a file that passed the name check, the size check and
\* validation: in replace mode they become parsedData's arrays, in merge
\* mode mergeData of the store's arrays and parsedData's; parsedData never
\* comes from a file that fails a check.
C21_NoPartialImport ==
  /\ stoLast.op # "handleConfirmImport" => ~StoreChanged
  /\ modParsedData.present =>
       /\ modFrom \in AcceptedFiles
       /\ modParsedData = SanitizedData[modFrom]
  /\ stoLast.op = "handleConfirmImport" =>
       IF ~modPrev.parsedData.present
       THEN ~StoreChanged
       ELSE /\ modPrev.parsedData \in Importable
            /\ modPrev.importMode = "replace" =>
                 /\ stoActivities = modPrev.parsedData.activities
                 /\ stoLogs = modPrev.parsedData.logs
            /\ modPrev.importMode = "merge" =>
                 LET merged == mergeData(stoPrev.activities, stoPrev.logs,
                                         modPrev.parsedData.activities,
                                         modPrev.parsedData.logs)
                 IN /\ stoActivities = merged.activities
                    /\ stoLogs = merged.logs

\* A merge-mode import into a store that holds data is confirmed and adds
\* an activity.
C21_Witness ==
  /\ stoLast.op = "handleConfirmImport"
  /\ modPrev.importMode = "merge"
  /\ stoPrev.activities # <<>>
  /\ StoreChanged
  /\ Len(stoActivities) > Len(stoPrev.activities)

\* What the modal shows after processFile(file) alone: the rejection, the
\* result of the read, or the read's failure.
Alone(file) ==
  IF ~processFile(file).reading
  THEN {[parsedData |-> NoData, error |-> processFile(file).error]}
  ELSE {[parsedData |-> Loaded[file].parsedData, error |-> Loaded[file].error],
        [parsedData |-> NoData, error |-> Message("Failed to read file. Please try again.")]}

ShowsLastFile ==
  (modReads = {} /\ modSelected # NoFile) =>
    [parsedData |-> modParsedData, error |-> modError] \in Alone(modSelected)

NeverBoth == ~(modError.set /\ modParsedData.present)

ImportsLastFile ==
  (stoLast.op = "handleConfirmImport" /\ modPrev.parsedData.present) =>
    modPrev.from = modPrev.selected

\* C27: once every read has completed, parsedData and error are what
\* processing the last selected file alone produces; error and parsedData
\* are never both set; a confirmed import imports the last selected file.
C27_ReflectsLastFile == ShowsLastFile /\ NeverBoth /\ ImportsLastFile

(***************************************************************************)
(* Sanitizer harness: a string is sanitized, and the result sanitized      *)
(* again.                                                                  *)
(***************************************************************************)
SanChunks ==
  { <<"&">>, <<";">>, <<"<">>, <<">">>, <<"b">>, <<" ">>,
    <<"l", "t", ";">>, <<"g", "t", ";">>, <<"a", "m", "p", ";">>,
    <<"q", "u", "o", "t", ";">>, <<"#", "x", "2", "7", ";">> }

SanInputs ==
  { Concat(cs) : cs \in UNION { [1..n -> SanChunks] : n \in 0..MaxChunks } }

InitSanitize ==
  /\ sanPc = "input"
  /\ sanIn \in SanInputs
  /\ sanOut = <<>>
  /\ sanOut2 = <<>>
  /\ MrgIdle /\ ValIdle /\ PipIdle /\ FldIdle /\ FnIdle /\ AppIdle

SanitizeOnce ==
  /\ sanPc = "input"
  /\ sanOut' = sanitizeString(sanIn)
  /\ sanPc' = "once"
  /\ UNCHANGED <<sanIn, sanOut2, mrgVars, valVars, pipVars, fldVars, fnVars, appVars>>

SanitizeTwice ==
  /\ sanPc = "once"
  /\ sanOut2' = sanitizeString(sanOut)
  /\ sanPc' = "twice"
  /\ UNCHANGED <<sanIn, sanOut, mrgVars, valVars, pipVars, fldVars, fnVars, appVars>>

NextSanitize == SanitizeOnce \/ SanitizeTwice

SpecSanitize == InitSanitize /\ [][NextSanitize]_vars

\* C1: sanitizing is idempotent: sanitizing an already sanitized string
\* returns it unchanged.
C1_SanitizeIdempotent == sanPc = "twice" => sanOut2 = sanOut

=============================================================================
